---- MODULE Spec2Model ----
(***************************************************************************)
(* A model of the graph build of rag-bot-demo:                             *)
(*   - the structured-output extractor of app/graph_store.py (fence        *)
(*     stripping, bracket span, json.loads, trailing-truncation repair,    *)
(*     object salvage), as operators over texts;                           *)
(*   - build_graph_for_session and _upsert_graph against the graph store;  *)
(*   - the build lock and the task registry of app/lightrag_graph.py.      *)
(*                                                                         *)
(* A text is a sequence of one-character strings.  Positions handed to or  *)
(* returned by the Python-named helpers (find, rfind, slices) are Python's *)
(* 0-based positions, -1 meaning "not found".                              *)
(***************************************************************************)
EXTENDS Integers, Sequences, FiniteSets, TLC

----------------------------------------------------------------------------
(* Python str helpers *)

Max(a, b) == IF a >= b THEN a ELSE b

Min(a, b) == IF a <= b THEN a ELSE b

\* The whitespace characters of the texts (str.strip and the JSON scanner agree on them).
WS == {" ", "\n", "\t", "\r"}

\* s[a:b] for 0 <= a, with b clipped to len(s).
Slice(s, a, b) == SubSeq(s, a + 1, Min(b, Len(s)))

\* s.find(ch) for a one-character ch.
find(s, ch) ==
  LET hits == {i \in 1..Len(s) : s[i] = ch}
  IN IF hits = {} THEN -1 ELSE (CHOOSE i \in hits : \A j \in hits : i <= j) - 1

\* s.rfind(ch) for a one-character ch.
rfind(s, ch) ==
  LET hits == {i \in 1..Len(s) : s[i] = ch}
  IN IF hits = {} THEN -1 ELSE (CHOOSE i \in hits : \A j \in hits : i >= j) - 1

\* The backtick character (a TLA+ string literal cannot hold one).
Backtick == "bt"

Fence == <<Backtick, Backtick, Backtick>>

\* s.startswith(Fence)
startswith_fence(s) == Len(s) >= 3 /\ SubSeq(s, 1, 3) = Fence

\* s.rfind(Fence)
rfind_fence(s) ==
  LET hits == {i \in 1..(Len(s) - 2) : SubSeq(s, i, i + 2) = Fence}
  IN IF hits = {} THEN -1 ELSE (CHOOSE i \in hits : \A j \in hits : i >= j) - 1

RECURSIVE lstrip(_)
lstrip(s) == IF s # <<>> /\ Head(s) \in WS THEN lstrip(Tail(s)) ELSE s

RECURSIVE rstrip(_)
rstrip(s) ==
  IF s # <<>> /\ s[Len(s)] \in WS THEN rstrip(SubSeq(s, 1, Len(s) - 1)) ELSE s

strip(s) == rstrip(lstrip(s))

----------------------------------------------------------------------------
(* json.loads.  A value is a pair <<tag, payload>>:                        *)
(*   <<"str", chars>>, <<"null", <<>>>>, <<"bool", <<"true">>>>,          *)
(*   <<"arr", <<v1, ..., vn>>>>, <<"obj", << <<key1, v1>>, ... >>>>        *)
(* an object holding its keys once, in the order of first insertion, as a  *)
(* Python dict does.  Python's None is the null value.  The texts hold no  *)
(* backslash, digit, sign or upper-case letter, so string escapes and      *)
(* numbers never start.                                                    *)

None == <<"null", <<>>>>

IsDict(v) == v[1] = "obj"

IsList(v) == v[1] = "arr"

\* d[key] = value of a dict payload: replace in place, or append.
DictSet(kv, key, value) ==
  IF \E i \in 1..Len(kv) : kv[i][1] = key
  THEN [i \in 1..Len(kv) |-> IF kv[i][1] = key THEN <<key, value>> ELSE kv[i]]
  ELSE Append(kv, <<key, value>>)

\* key in d
DictHas(d, key) == \E i \in 1..Len(d[2]) : d[2][i][1] = key

\* d.get(key, default)
DictGet(d, key, default) ==
  IF DictHas(d, key)
  THEN d[2][CHOOSE i \in 1..Len(d[2]) : d[2][i][1] = key][2]
  ELSE default

ParseFail == [ok |-> FALSE, val |-> None, pos |-> 0]

\* The least element of a set of positive numbers, 0 for the empty set.
MinOf(S) == IF S = {} THEN 0 ELSE CHOOSE x \in S : \A y \in S : x <= y

RECURSIVE SkipWs(_, _)
SkipWs(s, i) == IF i <= Len(s) /\ s[i] \in WS THEN SkipWs(s, i + 1) ELSE i

\* scanstring from the opening quote s[i] to the closing quote s[j] (j = 0: there
\* is none).  A control character inside the literal is an error (strict mode).
StringUpTo(s, i, j) ==
  IF j = 0 THEN ParseFail
  ELSE IF \E k \in (i + 1)..(j - 1) : s[k] \in {"\n", "\t", "\r"} THEN ParseFail
  ELSE [ok |-> TRUE, val |-> SubSeq(s, i + 1, j - 1), pos |-> j + 1]

ParseString(s, i) == StringUpTo(s, i, MinOf({j \in (i + 1)..Len(s) : s[j] = "\""}))

LitNull == <<"n", "u", "l", "l">>

RECURSIVE ParseValue(_, _)
RECURSIVE ParseMembers(_, _, _)
RECURSIVE ParseItems(_, _, _)

(* JSONObject's loop, statement by statement.  acc holds the pairs so far. *)

\* after the comma: s[n] must open the next key
NextKey(s, acc, n) ==
  IF n <= Len(s) /\ s[n] = "\"" THEN ParseMembers(s, n, acc) ELSE ParseFail

\* after a member: s[e] closes the object or is the comma
MemberEnd(s, acc, e) ==
  IF e > Len(s) THEN ParseFail
  ELSE IF s[e] = "}" THEN [ok |-> TRUE, val |-> <<"obj", acc>>, pos |-> e + 1]
  ELSE IF s[e] # "," THEN ParseFail
  ELSE NextKey(s, acc, SkipWs(s, e + 1))

\* the member's value v is scanned
AfterMember(s, acc, key, v) ==
  IF ~v.ok THEN ParseFail
  ELSE MemberEnd(s, DictSet(acc, key, v.val), SkipWs(s, v.pos))

\* s[c] must be the colon
AfterColon(s, acc, key, c) ==
  IF ~(c <= Len(s) /\ s[c] = ":") THEN ParseFail
  ELSE AfterMember(s, acc, key, ParseValue(s, SkipWs(s, c + 1)))

\* the key k is scanned
AfterKey(s, acc, k) ==
  IF ~k.ok THEN ParseFail ELSE AfterColon(s, acc, k.val, SkipWs(s, k.pos))

\* s[i] is the opening quote of a key
ParseMembers(s, i, acc) == AfterKey(s, acc, ParseString(s, i))

(* JSONArray's loop.  acc holds the items so far. *)

\* after an item: s[e] closes the array or is the comma
ItemEnd(s, acc, e) ==
  IF e > Len(s) THEN ParseFail
  ELSE IF s[e] = "]" THEN [ok |-> TRUE, val |-> <<"arr", acc>>, pos |-> e + 1]
  ELSE IF s[e] # "," THEN ParseFail
  ELSE ParseItems(s, SkipWs(s, e + 1), acc)

\* the item v is scanned
AfterItem(s, acc, v) ==
  IF ~v.ok THEN ParseFail ELSE ItemEnd(s, Append(acc, v.val), SkipWs(s, v.pos))

\* s[i] starts the next item
ParseItems(s, i, acc) == AfterItem(s, acc, ParseValue(s, i))

\* JSONObject: s[n] is the first character after the brace and its whitespace
ObjectAt(s, n) ==
  IF n > Len(s) THEN ParseFail
  ELSE IF s[n] = "}" THEN [ok |-> TRUE, val |-> <<"obj", <<>>>>, pos |-> n + 1]
  ELSE IF s[n] = "\"" THEN ParseMembers(s, n, <<>>)
  ELSE ParseFail

\* JSONArray: s[n] is the first character after the bracket and its whitespace
ArrayAt(s, n) ==
  IF n > Len(s) THEN ParseFail
  ELSE IF s[n] = "]" THEN [ok |-> TRUE, val |-> <<"arr", <<>>>>, pos |-> n + 1]
  ELSE ParseItems(s, n, <<>>)

StringValue(r) ==
  IF r.ok THEN [ok |-> TRUE, val |-> <<"str", r.val>>, pos |-> r.pos] ELSE ParseFail

\* scan_once: the value that starts at s[i] (no whitespace is skipped here).
ParseValue(s, i) ==
  IF i > Len(s) THEN ParseFail
  ELSE IF s[i] = "\"" THEN StringValue(ParseString(s, i))
  ELSE IF s[i] = "{" THEN ObjectAt(s, SkipWs(s, i + 1))
  ELSE IF s[i] = "[" THEN ArrayAt(s, SkipWs(s, i + 1))
  ELSE IF s[i] = "n" /\ Slice(s, i - 1, i + 3) = LitNull
    THEN [ok |-> TRUE, val |-> None, pos |-> i + 4]
  ELSE IF s[i] = "t" /\ Slice(s, i - 1, i + 3) = <<"t", "r", "u", "e">>
    THEN [ok |-> TRUE, val |-> <<"bool", <<"true">>>>, pos |-> i + 4]
  ELSE IF s[i] = "f" /\ Slice(s, i - 1, i + 4) = <<"f", "a", "l", "s", "e">>
    THEN [ok |-> TRUE, val |-> <<"bool", <<"false">>>>, pos |-> i + 5]
  ELSE ParseFail

\* JSONDecoder.decode: nothing but whitespace may follow the value r.
Decoded(s, r) ==
  IF r.ok /\ SkipWs(s, r.pos) = Len(s) + 1
  THEN [ok |-> TRUE, val |-> r.val]
  ELSE [ok |-> FALSE, val |-> None]

\* json.loads(s): [ok, val]; ok = FALSE stands for json.JSONDecodeError.
json_loads(s) == Decoded(s, ParseValue(s, SkipWs(s, 1)))

----------------------------------------------------------------------------
(* The structured-output extractor of app/graph_store.py *)

K_nodes == <<"n", "o", "d", "e", "s">>

K_edges == <<"e", "d", "g", "e", "s">>

K_id == <<"i", "d">>

K_label == <<"l", "a", "b", "e", "l">>

K_source == <<"s", "o", "u", "r", "c", "e">>

K_target == <<"t", "a", "r", "g", "e", "t">>

K_type == <<"t", "y", "p", "e">>

\* text[first_newline + 1:] when the text has a newline
AfterFirstLine(text) ==
  IF find(text, "\n") # -1 THEN Slice(text, find(text, "\n") + 1, Len(text)) ELSE text

\* text[:end_fence] when the text has a closing fence
BeforeEndFence(text) ==
  IF rfind_fence(text) # -1 THEN Slice(text, 0, rfind_fence(text)) ELSE text

\* The fence stripping of _extract_json_block on the stripped text.
Unfenced(text) ==
  IF startswith_fence(text) THEN strip(BeforeEndFence(AfterFirstLine(text))) ELSE text

\* The bracket span of _extract_json_block: text[start : end + 1], or raw.
BracketSpan(raw, text) ==
  IF find(text, "{") = -1 \/ rfind(text, "}") = -1 \/ rfind(text, "}") <= find(text, "{")
  THEN raw
  ELSE Slice(text, find(text, "{"), rfind(text, "}") + 1)

\* _extract_json_block(raw)
extract_json_block(raw) == BracketSpan(raw, Unfenced(strip(raw)))

\* range(1, 200): the exclusive upper end of the cuts tried.
TrimLimit == 200

\* trimmed[: last_brace + 1], last_brace = -1 when trimmed holds no closing bracket
CandidateOf(trimmed, last_brace) ==
  [last_brace |-> last_brace, candidate |-> Slice(trimmed, 0, last_brace + 1)]

LastBrace(trimmed) == Max(rfind(trimmed, "}"), rfind(trimmed, "]"))

Trimmed(raw, cut) == rstrip(Slice(raw, 0, Max(0, Len(raw) - cut)))

\* The candidate of one pass of the for-loop of _try_parse_json_with_trimming.
TrimCandidate(raw, cut) == CandidateOf(Trimmed(raw, cut), LastBrace(Trimmed(raw, cut)))

\* b is the first breaking cut, 0 when the loop runs to its end.
BreakOr(b) == IF b = 0 THEN TrimLimit ELSE b

\* The for-loop without its break statement.
FirstBreakNever(raw) == TrimLimit

\* The cut at which the for-loop breaks (no closing bracket is left), TrimLimit
\* when it does not.  A cut of len(raw) or more leaves the empty text, so the
\* search need not go beyond it.
FirstBreak(raw) ==
  BreakOr(MinOf({cut \in 1..Min(TrimLimit - 1, Max(1, Len(raw))) :
                   TrimCandidate(raw, cut).last_brace = -1}))

\* The first cut before `stop` whose candidate parses, 0 when none does.
FirstParse(raw, stop) ==
  MinOf({cut \in 1..(stop - 1) : json_loads(TrimCandidate(raw, cut).candidate).ok})

\* What the for-loop ends with: the parse at `cut`, or (cut = 0) the error after
\* the loop left at `stop`.  tried counts the candidates handed to json.loads.
TrimResult(raw, stop, cut) ==
  IF cut = 0
  THEN [ok |-> FALSE, val |-> None, cut |-> stop, tried |-> stop - 1]
  ELSE [ok |-> TRUE, val |-> json_loads(TrimCandidate(raw, cut).candidate).val,
        cut |-> cut, tried |-> cut]

TrimUpTo(raw, stop) == TrimResult(raw, stop, FirstParse(raw, stop))

\* The for-loop of _try_parse_json_with_trimming.  It leaves at the first cut
\* whose candidate holds no closing bracket (break) or parses (return), so it is
\* written as the search for that cut.
TrimLoop(raw) == TrimUpTo(raw, FirstBreak(raw))

\* The parse of raw as it is (cut = 0), else the loop.
TrimmingAfter(raw, first) ==
  IF first.ok
  THEN [ok |-> TRUE, val |-> first.val, cut |-> 0, tried |-> 0]
  ELSE TrimLoop(raw)

\* _try_parse_json_with_trimming(raw): ok = FALSE stands for the JSONDecodeError
\* it raises.
try_parse_json_with_trimming(raw) == TrimmingAfter(raw, json_loads(raw))

RECURSIVE IterLoop(_, _, _, _, _)

\* One pass of the loop of _iter_json_objects at the brace text[b]; b = -1: no
\* brace is left.
IterAt(text, b, depth, start, out) ==
  IF b = -1 THEN out
  ELSE IF text[b + 1] = "{"
  THEN IterLoop(text, b + 1, depth + 1, IF depth = 0 THEN b ELSE start, out)
  ELSE IF depth > 0
  THEN IF depth - 1 = 0 /\ start # -1
       THEN IterLoop(text, b + 1, 0, -1, Append(out, Slice(text, start, b + 1)))
       ELSE IterLoop(text, b + 1, depth - 1, start, out)
  ELSE IterLoop(text, b + 1, depth, start, out)

\* The loop of _iter_json_objects from 0-based position i on; start = -1 is
\* None.  Only a brace changes the loop's state, so the loop goes from brace to
\* brace.
IterLoop(text, i, depth, start, out) ==
  IterAt(text, MinOf({j \in (i + 1)..Len(text) : text[j] \in {"{", "}"}}) - 1,
         depth, start, out)

\* _iter_json_objects(text): the spans it yields, in order.
iter_json_objects(text) == IterLoop(text, 0, 0, -1, <<>>)

\* hash(v) succeeds: a list or a dict is unhashable.
Hashable(v) == ~IsDict(v) /\ ~IsList(v)

RECURSIVE SalvageLoop(_, _, _, _, _)

\* The body of the loop of _salvage_nodes_edges_from_partial for the k-th span,
\* r its json.loads.  raised stands for the TypeError of
\* "node_id not in seen_node_ids" on an unhashable id.
SalvageSpan(spans, k, nodes, edges, seen_node_ids, r) ==
  IF ~r.ok THEN SalvageLoop(spans, k + 1, nodes, edges, seen_node_ids)
  ELSE IF ~IsDict(r.val) THEN SalvageLoop(spans, k + 1, nodes, edges, seen_node_ids)
  ELSE IF DictHas(r.val, K_nodes) \/ DictHas(r.val, K_edges)
  THEN SalvageLoop(spans, k + 1, nodes, edges, seen_node_ids)
  ELSE IF DictHas(r.val, K_source) /\ DictHas(r.val, K_target)
  THEN SalvageLoop(spans, k + 1, nodes, Append(edges, r.val), seen_node_ids)
  ELSE IF DictHas(r.val, K_id) /\ DictHas(r.val, K_label)
  THEN IF ~Hashable(DictGet(r.val, K_id, None))
       THEN [raised |-> TRUE, nodes |-> nodes, edges |-> edges]
       ELSE IF DictGet(r.val, K_id, None) \notin seen_node_ids
       THEN SalvageLoop(spans, k + 1, Append(nodes, r.val), edges,
                        seen_node_ids \cup {DictGet(r.val, K_id, None)})
       ELSE SalvageLoop(spans, k + 1, nodes, edges, seen_node_ids)
  ELSE SalvageLoop(spans, k + 1, nodes, edges, seen_node_ids)

\* The loop of _salvage_nodes_edges_from_partial over the spans from the k-th on.
SalvageLoop(spans, k, nodes, edges, seen_node_ids) ==
  IF k > Len(spans)
  THEN [raised |-> FALSE, nodes |-> nodes, edges |-> edges]
  ELSE SalvageSpan(spans, k, nodes, edges, seen_node_ids, json_loads(spans[k]))

\* _salvage_nodes_edges_from_partial(raw)
salvage_nodes_edges_from_partial(raw) ==
  SalvageLoop(iter_json_objects(raw), 1, <<>>, <<>>, {})

\* The outcome of lines 306-354 of build_graph_for_session once json_block is
\* parsed: data.get on a value that is no dict raises AttributeError.
read_graph(data) ==
  IF ~IsDict(data)
  THEN [kind |-> "raise", exc |-> "AttributeError", nodes |-> None, edges |-> None]
  ELSE [kind |-> "parsed", exc |-> "",
        nodes |-> DictGet(data, K_nodes, <<"arr", <<>>>>),
        edges |-> DictGet(data, K_edges, <<"arr", <<>>>>)]

\* The except-branch without its `if not nodes and not edges` return: an empty
\* salvage goes on to the upsert.
SalvageOutcomeNoReturn(sv) ==
  IF sv.raised
  THEN [kind |-> "raise", exc |-> "TypeError", nodes |-> None, edges |-> None]
  ELSE [kind |-> "salvaged", exc |-> "",
        nodes |-> <<"arr", sv.nodes>>, edges |-> <<"arr", sv.edges>>]

\* The except-branch of build_graph_for_session on what the salvage gave: the
\* could-not-parse summary when it found nothing.
SalvageOutcome(sv) ==
  IF sv.raised
  THEN [kind |-> "raise", exc |-> "TypeError", nodes |-> None, edges |-> None]
  ELSE IF sv.nodes = <<>> /\ sv.edges = <<>>
  THEN [kind |-> "failure", exc |-> "", nodes |-> None, edges |-> None]
  ELSE [kind |-> "salvaged", exc |-> "",
        nodes |-> <<"arr", sv.nodes>>, edges |-> <<"arr", sv.edges>>]

salvage_graph(salvage_source) ==
  SalvageOutcome(salvage_nodes_edges_from_partial(salvage_source))

\* try/except of build_graph_for_session around the parse of json_block
CascadeAfter(block, parsed) ==
  IF parsed.ok THEN read_graph(parsed.val) ELSE salvage_graph(block)

CascadeOn(block) == CascadeAfter(block, try_parse_json_with_trimming(block))

\* The extraction cascade of build_graph_for_session on the response text.
extraction_cascade(response) == CascadeOn(extract_json_block(response))

----------------------------------------------------------------------------
(* Response texts.  The prompt asks for one object {"nodes": [...],       *)
(* "edges": [...]} of {"id", "label"} and {"source", "target", "type"}    *)
(* objects; the texts below are such documents, their truncations, their  *)
(* fenced forms, and answers of another shape.                             *)

Q(chars) == <<"\"">> \o chars \o <<"\"">>

Pair(key, chars) == Q(key) \o <<":">> \o Q(chars)

NodeText(id, label) ==
  <<"{">> \o Pair(K_id, id) \o <<",">> \o Pair(K_label, label) \o <<"}">>

EdgeText(source, target, type) ==
  <<"{">> \o Pair(K_source, source) \o <<",">> \o Pair(K_target, target)
    \o <<",">> \o Pair(K_type, type) \o <<"}">>

\* {"nodes":[<nodes>],"edges":[<edges>]}
DocText(nodes, edges) ==
  <<"{">> \o Q(K_nodes) \o <<":", "[">> \o nodes \o <<"]", ",">>
    \o Q(K_edges) \o <<":", "[">> \o edges \o <<"]", "}">>

\* One node a and one edge a -> a: 83 characters.
DocA == DocText(NodeText(<<"a">>, <<"b">>), EdgeText(<<"a">>, <<"a">>, <<"t">>))

\* Two nodes a, c and the edge a -> c.
DocAC ==
  DocText(NodeText(<<"a">>, <<"b">>) \o <<",">> \o NodeText(<<"c">>, <<"d">>),
          EdgeText(<<"a">>, <<"c">>, <<"t">>))

\* A node c and no edge.
DocC == DocText(NodeText(<<"c">>, <<"d">>), <<>>)

\* A node a, the edge a -> c to a node that is not given, then the edge a -> a.
DocDangleFirst ==
  DocText(NodeText(<<"a">>, <<"b">>),
          EdgeText(<<"a">>, <<"c">>, <<"t">>) \o <<",">>
            \o EdgeText(<<"a">>, <<"a">>, <<"t">>))

\* The same with the edge a -> c last.
DocDangleLast ==
  DocText(NodeText(<<"a">>, <<"b">>),
          EdgeText(<<"a">>, <<"a">>, <<"t">>) \o <<",">>
            \o EdgeText(<<"a">>, <<"c">>, <<"t">>))

Prose == <<"n", "o", " ", "g", "r", "a", "p", "h">>

\* ```json\n<text>\n```
Fenced(text) ==
  Fence \o <<"j", "s", "o", "n", "\n">> \o text \o <<"\n">> \o Fence

\* ```\n<text>\n```
FencedPlain(text) == Fence \o <<"\n">> \o text \o <<"\n">> \o Fence

\* A damaged first object, then complete objects: the text the salvage is for.
Damaged ==
  <<"{", "x", "}", ",">> \o NodeText(<<"a">>, <<"b">>) \o <<",">>
    \o EdgeText(<<"a">>, <<"c">>, <<"t">>)

\* Valid JSON that is no object, and an object whose nodes are no list.
ShapeTexts ==
  { <<"[", "]">>, <<"[">> \o Q(<<"a">>) \o <<"]">>, LitNull,
    <<"{">> \o Q(K_nodes) \o <<":">> \o LitNull \o <<"}">>,
    <<"{", "}">> }

\* The truncations of text: its prefixes of at least `from` characters, the
\* text itself excluded.
Truncations(text, from) == {SubSeq(text, 1, k) : k \in from..(Len(text) - 1)}

\* The damaged texts after Damaged: a second node a and a node c with the edge
\* c -> a; an object with the keys of an edge and of a node; an object with a
\* nodes key next to the keys of a node, then a node c; an object with an id
\* alone; a node whose id is a list.  And a closing bracket with more than
\* TrimLimit characters behind it: every cut of the repair leaves the bracket.
\* And the document DocC with a tail that the first cut, or the third, removes.
TextInputs ==
  {DocA, DocAC, DocC, Prose, Damaged, Fenced(DocA), FencedPlain(DocA), Fenced(Prose)}
    \cup ShapeTexts \cup Truncations(DocA, 1) \cup Truncations(DocAC, 50)
    \cup { Damaged \o <<",">> \o NodeText(<<"a">>, <<"d">>) \o <<",">>
              \o NodeText(<<"c">>, <<"d">>) \o <<",">>
              \o EdgeText(<<"c">>, <<"a">>, <<"t">>),
            <<"{", "x", "}", ",", "{">> \o Pair(K_source, <<"a">>) \o <<",">>
              \o Pair(K_target, <<"c">>) \o <<",">> \o Pair(K_id, <<"a">>)
              \o <<",">> \o Pair(K_label, <<"b">>) \o <<"}">>,
            <<"{", "x", "}", ",", "{">> \o Q(K_nodes) \o <<":">> \o LitNull
              \o <<",">> \o Pair(K_id, <<"a">>) \o <<",">>
              \o Pair(K_label, <<"b">>) \o <<"}", ",">>
              \o NodeText(<<"c">>, <<"d">>),
            <<"{", "x", "}", ",", "{">> \o Pair(K_id, <<"a">>) \o <<"}">>,
            <<"{", "x", "}", ",", "{">> \o Q(K_id) \o <<":", "[">> \o Q(<<"a">>)
              \o <<"]", ",">> \o Pair(K_label, <<"b">>) \o <<"}">>,
            <<"]">> \o [i \in 1..TrimLimit |-> "x"],
            DocC \o <<"x", "}">>, DocC \o <<"]", "x", "}">> }

----------------------------------------------------------------------------
(* State *)

VARIABLES
  \* the extractor run of one response, step by step
  extraction,     \* the response text of llm_chat
  json_block,     \* _extract_json_block(extraction)
  data,           \* the outcome of _try_parse_json_with_trimming(json_block)
  result,         \* what the cascade ends with
  tpc,            \* the position in lines 306-354 of build_graph_for_session
  \* build_graph_for_session against the graph store
  store_nodes,    \* the Entity nodes: records [sid, id, label]
  store_rels,     \* the RELATION relationships: records [sid, source, target, type]
  gpc,            \* each builder's position in build_graph_for_session
  g,              \* each builder's locals
  gret,           \* what each builder's last call returned or raised
  store_calls,    \* the calls of build_graph_for_session made so far
  \* the concurrency coordinator of app/lightrag_graph.py
  build_lock,         \* _build_lock is held
  lock_owner,         \* the build the lock was acquired for, 0 for none (history)
  graph_build_tasks,  \* _graph_build_tasks: the record of each session id
  builds,             \* the builds that got the lock, in order, and their threads
  call,               \* each caller's position and locals
  ret,                \* what the call that ended in the last step returned or raised
  last_delivery,      \* the last record of the session id was handed to a poll (history)
  \* the size reducer of _build_lightrag_graph_for_session_async
  red                 \* its inputs, its position and its locals

text_vars == <<extraction, json_block, data, result, tpc>>

store_vars == <<store_nodes, store_rels, gpc, g, gret, store_calls>>

coord_vars ==
  <<build_lock, lock_owner, graph_build_tasks, builds, call, ret, last_delivery>>

vars == <<text_vars, store_vars, coord_vars, red>>

NoResult == [kind |-> "none", exc |-> "", nodes |-> None, edges |-> None]

NoData == [ok |-> FALSE, val |-> None, cut |-> 0, tried |-> 0]

----------------------------------------------------------------------------
(* The extractor, one statement of build_graph_for_session per step *)

\* json_block = _extract_json_block(extraction)
TExtract ==
  /\ tpc = "start"
  /\ json_block' = extract_json_block(extraction)
  /\ tpc' = "extracted"
  /\ UNCHANGED <<extraction, data, result, store_vars, coord_vars, red>>

\* data = _try_parse_json_with_trimming(json_block), or its JSONDecodeError
TParse ==
  /\ tpc = "extracted"
  /\ data' = try_parse_json_with_trimming(json_block)
  /\ tpc' = IF data'.ok THEN "parsed" ELSE "except"
  /\ UNCHANGED <<extraction, json_block, result, store_vars, coord_vars, red>>

\* nodes = data.get("nodes", []); edges = data.get("edges", [])
TRead ==
  /\ tpc = "parsed"
  /\ result' = read_graph(data.val)
  /\ tpc' = "done"
  /\ UNCHANGED <<extraction, json_block, data, store_vars, coord_vars, red>>

\* the except-branch: salvage, or the could-not-parse summary
TSalvage ==
  /\ tpc = "except"
  /\ result' = salvage_graph(json_block)
  /\ tpc' = "done"
  /\ UNCHANGED <<extraction, json_block, data, store_vars, coord_vars, red>>

TextNext == TExtract \/ TParse \/ TRead \/ TSalvage

----------------------------------------------------------------------------
(* The graph store and _upsert_graph *)

Builders == {"b1", "b2"}

Sessions == {"s1", "s2"}

\* The calls of build_graph_for_session a run makes.
MaxStoreCalls == 3

\* The replies of llm_chat to the builders.
StoreResponses ==
  {DocA, DocAC, DocC, DocDangleFirst, DocDangleLast, Prose, <<"[", "]">>}

CascadeOf == [r \in StoreResponses |-> extraction_cascade(r)]

\* `for x in v`: the items of a list, the characters of a str, the keys of a
\* dict; anything else is not iterable (TypeError).
Iterable(v) == v[1] \in {"arr", "str", "obj"}

Items(v) ==
  IF v[1] = "arr" THEN v[2]
  ELSE IF v[1] = "str" THEN [i \in 1..Len(v[2]) |-> <<"str", <<v[2][i]>>>>]
  ELSE [i \in 1..Len(v[2]) |-> <<"str", v[2][i][1]>>]

\* MATCH (n {session_id: $sid})-[r]-(): the nodes of sid with a relationship.
MatchedForDelete(nodes, rels, sid) ==
  {n \in nodes : n.sid = sid /\ \E r \in rels :
                   r.sid = sid /\ (r.source = n.id \/ r.target = n.id)}

\* The first statement of _upsert_graph: DETACH DELETE of the matched nodes.
ClearGraph(nodes, rels, sid) ==
  LET gone == MatchedForDelete(nodes, rels, sid)
  IN [nodes |-> nodes \ gone,
      rels |-> {r \in rels : ~\E n \in gone :
                  r.sid = n.sid /\ (r.source = n.id \/ r.target = n.id)}]

\* The MERGE keyed by the id alone: MERGE (n:Entity {id: $id}) SET
\* n.session_id = $sid, n.label = $label.
MergeNodeById(nodes, sid, id, label) ==
  {n \in nodes : n.id # id} \cup {[sid |-> sid, id |-> id, label |-> label]}

\* MERGE (n:Entity {id: $id, session_id: $sid}) SET n.label = $label
MergeNode(nodes, sid, id, label) ==
  {n \in nodes : ~(n.sid = sid /\ n.id = id)}
    \cup {[sid |-> sid, id |-> id, label |-> label]}

\* Both MATCH clauses of the edge statement find their node.
EndpointsExist(nodes, sid, source, target) ==
  /\ \E n \in nodes : n.sid = sid /\ n.id = source
  /\ \E n \in nodes : n.sid = sid /\ n.id = target

\* The edge statement without its MATCH clauses: the relation is made whether
\* or not its endpoints exist.
MergeEdgeUnchecked(nodes, rels, sid, source, target, type) ==
  rels \cup {[sid |-> sid, source |-> source, target |-> target, type |-> type]}

\* MATCH (s), MATCH (t), MERGE (s)-[r:RELATION {type: $type}]->(t)
MergeEdge(nodes, rels, sid, source, target, type) ==
  IF EndpointsExist(nodes, sid, source, target)
  THEN rels \cup {[sid |-> sid, source |-> source, target |-> target, type |-> type]}
  ELSE rels

\* No upsert of the builder is on record.
NoSnapshot == [ok |-> FALSE, sid |-> "", response |-> <<>>, nodes |-> {}, rels |-> {}]

\* What the store holds under b's session id, taken when b's upsert has ended
\* and ran alone (history).
Snapshot(b) ==
  IF g[b].alone
  THEN [ok |-> TRUE, sid |-> g[b].sid, response |-> g[b].response,
        nodes |-> {n \in store_nodes : n.sid = g[b].sid},
        rels |-> {r \in store_rels : r.sid = g[b].sid}]
  ELSE NoSnapshot

\* A builder's locals.  History: ops, the store operations of this build that
\* were issued and came back; alone, no other builder operated on the session id
\* during the upsert; failed, a store operation of this build raised; once, the
\* snapshot of the builder's last upsert, while nobody else has operated on its
\* session id since; twice, this upsert repeats that one.
Idle == [sid |-> "", response |-> <<>>, kind |-> "none", nodes |-> None,
         edges |-> None, i |-> 0, ops |-> 0, alone |-> TRUE, failed |-> FALSE,
         twice |-> FALSE, once |-> NoSnapshot]

NoReturn == [kind |-> "none", exc |-> "", text |-> <<>>, html |-> FALSE]

\* A builder that has issued a store operation of its build and has more to issue.
MidUpsert(b) == gpc[b] \in {"nodes", "edges"} /\ g[b].ops > 0

\* The locals of the other builders once b has issued a store operation on sid:
\* an upsert of sid they have begun, or ended and not yet reported, is no longer
\* alone, and their snapshot of sid is no longer the last upsert of it (history).
Disturb(b, sid) ==
  [o \in Builders |->
     IF o = b THEN g[o]
     ELSE [g[o] EXCEPT
             !.alone = @ /\ ~(g[o].sid = sid /\ gpc[o] \in {"nodes", "edges", "html"}),
             !.once = IF @.sid = sid THEN NoSnapshot ELSE @]]

\* The position after the loops that have nothing left to do are left.
Settled(pos, st) ==
  IF pos = "nodes" /\ Iterable(st.nodes) /\ st.i = Len(Items(st.nodes))
  THEN IF Iterable(st.edges) /\ Len(Items(st.edges)) = 0
       THEN [pc |-> "html", i |-> 0]
       ELSE [pc |-> "edges", i |-> 0]
  ELSE IF pos = "edges" /\ Iterable(st.edges) /\ st.i = Len(Items(st.edges))
  THEN [pc |-> "html", i |-> 0]
  ELSE [pc |-> pos, i |-> st.i]

\* build_graph_for_session(sid, ...) up to the upsert, `out` being what the
\* cascade made of the response: the call ends here when the cascade raises or
\* gives up.
GCallWith(b, sid, response, out) ==
  /\ gpc[b] = "idle"
  /\ store_calls < MaxStoreCalls
  /\ store_calls' = store_calls + 1
  /\ IF out.kind = "raise"
     THEN /\ gret' = [gret EXCEPT ![b] =
               [kind |-> "raise", exc |-> out.exc, text |-> <<>>, html |-> FALSE]]
          /\ UNCHANGED <<gpc, g>>
     ELSE IF out.kind = "failure"
     THEN /\ gret' = [gret EXCEPT ![b] =
               [kind |-> "failure", exc |-> "", text |-> response, html |-> FALSE]]
          /\ UNCHANGED <<gpc, g>>
     ELSE /\ g' = [g EXCEPT ![b] =
               [sid |-> sid, response |-> response, kind |-> out.kind,
                nodes |-> out.nodes, edges |-> out.edges, i |-> 0, ops |-> 0,
                alone |-> TRUE, failed |-> FALSE, twice |-> FALSE,
                once |-> g[b].once]]
          /\ gpc' = [gpc EXCEPT ![b] = "clear"]
          /\ gret' = [gret EXCEPT ![b] = NoReturn]
  /\ UNCHANGED <<store_nodes, store_rels, text_vars, coord_vars, red>>

\* build_graph_for_session(sid, ...): llm_chat answers `response`.
GCall(b, sid, response) == GCallWith(b, sid, response, CascadeOf[response])

\* _upsert_graph: the delete statement
GClear(b) ==
  /\ gpc[b] = "clear"
  /\ LET c == ClearGraph(store_nodes, store_rels, g[b].sid)
         st == [g[b] EXCEPT !.ops = 1, !.alone = ~(\E o \in Builders \ {b} :
                                           g[o].sid = g[b].sid /\ MidUpsert(o)),
                            !.twice = /\ g[b].once.ok
                                      /\ g[b].once.sid = g[b].sid
                                      /\ g[b].once.response = g[b].response]
         to == Settled("nodes", st)
     IN /\ store_nodes' = c.nodes
        /\ store_rels' = c.rels
        /\ g' = [Disturb(b, g[b].sid) EXCEPT ![b] = [st EXCEPT !.i = to.i]]
        /\ gpc' = [gpc EXCEPT ![b] = to.pc]
  /\ UNCHANGED <<gret, store_calls, text_vars, coord_vars, red>>

\* The exceptions of the graph store: a statement it rejects, and the store out
\* of reach.
StoreErrors == {"StoreError", "ServiceUnavailable"}

\* An exception handled by `except Exception: pass` around the upsert: the build
\* goes on to its summary.
GRaiseSwallowed(b, exc) ==
  /\ gpc' = [gpc EXCEPT ![b] = "html"]
  /\ g' = [g EXCEPT ![b] = [@ EXCEPT !.i = 0, !.failed = exc \in StoreErrors]]
  /\ UNCHANGED <<gret, store_nodes, store_rels, store_calls, text_vars, coord_vars, red>>

\* The exception that ends the call in the middle of _upsert_graph.  The locals
\* end with the call; the session id and the count of its operations are kept
\* as history.
GRaise(b, exc) ==
  /\ gret' = [gret EXCEPT ![b] =
       [kind |-> "raise", exc |-> exc, text |-> <<>>, html |-> FALSE]]
  /\ gpc' = [gpc EXCEPT ![b] = "idle"]
  /\ g' = [g EXCEPT ![b] = [Idle EXCEPT !.sid = g[b].sid, !.ops = g[b].ops,
                                         !.failed = exc \in StoreErrors]]
  /\ UNCHANGED <<store_nodes, store_rels, store_calls, text_vars, coord_vars, red>>

\* session.run (or _get_driver before the first statement) raises: the store is
\* out of reach.  The statement has no effect.
GFail(b) ==
  /\ gpc[b] \in {"clear", "nodes", "edges"}
  /\ GRaise(b, "ServiceUnavailable")

\* _upsert_graph: one pass of `for node in nodes`
GNode(b) ==
  /\ gpc[b] = "nodes"
  /\ IF ~Iterable(g[b].nodes) THEN GRaise(b, "TypeError")
     ELSE LET node == Items(g[b].nodes)[g[b].i + 1]
          IN IF ~IsDict(node) THEN GRaise(b, "AttributeError")
             ELSE IF DictGet(node, K_id, None) = None THEN GRaise(b, "StoreError")
             ELSE LET st == [g[b] EXCEPT !.i = @ + 1, !.ops = @ + 1]
                      to == Settled("nodes", st)
                  IN /\ store_nodes' = MergeNode(store_nodes, g[b].sid,
                                                 DictGet(node, K_id, None),
                                                 DictGet(node, K_label, None))
                     /\ g' = [Disturb(b, g[b].sid) EXCEPT ![b] = [st EXCEPT !.i = to.i]]
                     /\ gpc' = [gpc EXCEPT ![b] = to.pc]
                     /\ UNCHANGED <<store_rels, gret, store_calls, text_vars, coord_vars, red>>

\* _upsert_graph: one pass of `for edge in edges`
GEdge(b) ==
  /\ gpc[b] = "edges"
  /\ IF ~Iterable(g[b].edges) THEN GRaise(b, "TypeError")
     ELSE LET edge == Items(g[b].edges)[g[b].i + 1]
          IN IF ~IsDict(edge) THEN GRaise(b, "AttributeError")
             ELSE LET source == DictGet(edge, K_source, None)
                      target == DictGet(edge, K_target, None)
                      type == DictGet(edge, K_type, None)
                      st == [g[b] EXCEPT !.i = @ + 1, !.ops = @ + 1]
                      to == Settled("edges", st)
                  IN IF EndpointsExist(store_nodes, g[b].sid, source, target)
                        /\ type = None
                     THEN GRaise(b, "StoreError")
                     ELSE /\ store_rels' = MergeEdge(store_nodes, store_rels, g[b].sid,
                                                     source, target, type)
                          /\ g' = [Disturb(b, g[b].sid) EXCEPT ![b] =
                                     [st EXCEPT !.i = to.i]]
                          /\ gpc' = [gpc EXCEPT ![b] = to.pc]
                          /\ UNCHANGED <<store_nodes, gret, store_calls, text_vars, coord_vars, red>>

\* The rest of build_graph_for_session: _build_pyvis_html, whose exception is
\* swallowed (graph_html = None), and the summary.
GFinish(b, html) ==
  /\ gpc[b] = "html"
  /\ gret' = [gret EXCEPT ![b] =
       [kind |-> IF g[b].kind = "salvaged" THEN "partial" ELSE "updated",
        exc |-> "", text |-> <<>>, html |-> html]]
  /\ gpc' = [gpc EXCEPT ![b] = "idle"]
  /\ g' = [g EXCEPT ![b] = [Idle EXCEPT !.once = Snapshot(b)]]
  /\ UNCHANGED <<store_nodes, store_rels, store_calls, text_vars, coord_vars, red>>

StoreNext ==
  \E b \in Builders :
    \/ \E sid \in Sessions, response \in StoreResponses : GCall(b, sid, response)
    \/ GClear(b)
    \/ GNode(b)
    \/ GEdge(b)
    \/ GFail(b)
    \/ \E html \in BOOLEAN : GFinish(b, html)

----------------------------------------------------------------------------
(* The concurrency coordinator of app/lightrag_graph.py *)

\* The threads of the UI that call the coordinator.
Callers == {"c1", "c2"}

\* The session ids (namespaces) the callers pass.
Namespaces == {"n1", "n2"}

\* The builds that may get the lock in one run.
MaxBuilds == 2

\* What asyncio.run(_build_lightrag_graph_for_session_async(session_id)) ends
\* with: the (summary, html) tuple that a build and every early return of the
\* function give, an Exception with or without a message, or a BaseException
\* that is no Exception (asyncio.CancelledError, SystemExit, KeyboardInterrupt).
WorkerOutcomes == {"result", "Exception", "EmptyException", "BaseException"}

Raised == {"Exception", "EmptyException", "BaseException"}

\* No entry for the session id.
NoTask == [present |-> FALSE, thread |-> 0, done |-> FALSE, payload |-> "none", build |-> 0]

\* {"thread": thread, "done": False, "result": None, "error": None}
RunningTask(w) ==
  [present |-> TRUE, thread |-> w, done |-> FALSE, payload |-> "none", build |-> w]

\* {"result": res, "error": None, "done": True, "thread": None} and
\* {"result": None, "error": str(e), "done": True, "thread": None}; build is the
\* writer (history).
DoneTask(w, payload) ==
  [present |-> TRUE, thread |-> 0, done |-> TRUE, payload |-> payload, build |-> w]

\* What the worker writes for its outcome: res, or str(e), which is empty for an
\* exception without a message.
PayloadOf(outcome) ==
  IF outcome = "Exception" THEN "error"
  ELSE IF outcome = "EmptyException" THEN "empty_error"
  ELSE outcome

\* The poll without its `if error` branch: the error message is dropped.
status_of_no_error(payload) == IF payload = "result" THEN "result" ELSE "unknown"

\* The answer of get_graph_build_status for a done record: `if error`, then
\* `if result`, then the unknown-error summary.
status_of(payload) ==
  IF payload = "error" THEN "error"
  ELSE IF payload = "result" THEN "result"
  ELSE "unknown"

\* acquire() whose return value is not looked at: the caller goes on as if it
\* had the lock.
acquire_unchecked(locked) == [got |-> TRUE, locked |-> TRUE]

\* _build_lock.acquire(blocking=False): got is what it returns.
acquire(locked) == [got |-> ~locked, locked |-> TRUE]

NewBuild(sid, mode) == [session_id |-> sid, mode |-> mode, state |-> "created"]

\* A thread that is over keeps what is still read of it: that it is not alive.
Over(state) == [session_id |-> "", mode |-> "", state |-> state]

\* thread.is_alive(): between start() and the end of run()
is_alive(b) == b.state \in {"running", "finally", "exiting"}

NoRet ==
  [op |-> "none", kind |-> "none", val |-> "none", session_id |-> "", build |-> 0,
   clean |-> FALSE, saw_done |-> FALSE, after_delivery |-> FALSE, html |-> "None"]

Return(op, kind, val, sid, build) ==
  [op |-> op, kind |-> kind, val |-> val, session_id |-> sid, build |-> build,
   clean |-> FALSE, saw_done |-> FALSE, after_delivery |-> FALSE, html |-> "None"]

NoCall ==
  [pc |-> "idle", session_id |-> "", task |-> NoTask, build |-> 0,
   outcome |-> "none", clean |-> FALSE, saw_done |-> FALSE]

\* What get_graph_build_status gives past its first statement.  History: clean,
\* no other call wrote or deleted the record of the session id during this one;
\* saw_done, the record was done at the first statement.  html is the third
\* item of a poll's answer.
StatusReturn(c, kind, val, build) ==
  [op |-> "status", kind |-> kind, val |-> val,
   session_id |-> call[c].session_id, build |-> build, clean |-> call[c].clean,
   saw_done |-> call[c].saw_done, after_delivery |-> FALSE, html |-> "None"]

\* The calls of start_graph_build_async that have not reached the lock yet.
StartsInFlight ==
  Cardinality({c \in Callers : call[c].pc \in {"s_read", "s_alive", "s_acquire"}})

\* The call of c ends with r.
Leave(c, r) ==
  /\ ret' = r
  /\ call' = [call EXCEPT ![c] = NoCall]

\* The call of c goes on at pc.
Goto(c, pc) ==
  /\ call' = [call EXCEPT ![c].pc = pc]
  /\ ret' = NoRet

\* The calls of get_graph_build_status(sid) other than c's that are past their
\* first statement are no longer alone with the record.
Unclean(c, sid) ==
  [d \in Callers |->
     IF d # c /\ call[d].session_id = sid /\ call[d].pc \in {"p_read", "p_del"}
     THEN [call[d] EXCEPT !.clean = FALSE]
     ELSE call[d]]

(* build_lightrag_graph_for_session *)

\* The acquire placed inside the try-statement: the busy return passes the
\* finally-clause and releases a lock it does not hold.
BAcquireInTry(c, sid) ==
  /\ call[c].pc = "idle"
  /\ IF ~acquire(build_lock).got
     THEN /\ ret' = Return("build", "busy", "busy", sid, 0)
          /\ build_lock' = FALSE
          /\ lock_owner' = 0
          /\ UNCHANGED <<builds, call>>
     ELSE /\ Len(builds) + StartsInFlight < MaxBuilds
          /\ build_lock' = acquire(build_lock).locked
          /\ lock_owner' = Len(builds) + 1
          /\ builds' = Append(builds, NewBuild(sid, "blocking"))
          /\ call' = [call EXCEPT ![c] =
               [NoCall EXCEPT !.pc = "b_start", !.session_id = sid,
                              !.build = Len(builds) + 1]]
          /\ ret' = NoRet
  /\ UNCHANGED <<graph_build_tasks, last_delivery, text_vars, store_vars, red>>

\* if not _build_lock.acquire(blocking=False): return the busy summary
BAcquire(c, sid) ==
  /\ call[c].pc = "idle"
  /\ IF ~acquire(build_lock).got
     THEN /\ ret' = Return("build", "busy", "busy", sid, 0)
          /\ UNCHANGED <<build_lock, lock_owner, builds, call>>
     ELSE /\ Len(builds) + StartsInFlight < MaxBuilds
          /\ build_lock' = acquire(build_lock).locked
          /\ lock_owner' = Len(builds) + 1
          /\ builds' = Append(builds, NewBuild(sid, "blocking"))
          /\ call' = [call EXCEPT ![c] =
               [NoCall EXCEPT !.pc = "b_start", !.session_id = sid,
                              !.build = Len(builds) + 1]]
          /\ ret' = NoRet
  /\ UNCHANGED <<graph_build_tasks, last_delivery, text_vars, store_vars, red>>

\* thread.start(): the worker runs; or the thread cannot be started, and the
\* RuntimeError leaves through the finally-clause, which releases the lock.
BStart(c, started) ==
  /\ call[c].pc = "b_start"
  /\ IF started
     THEN /\ builds' = [builds EXCEPT ![call[c].build].state = "running"]
          /\ Goto(c, "b_join")
          /\ UNCHANGED <<build_lock, lock_owner>>
     ELSE /\ builds' = [builds EXCEPT ![call[c].build] = Over("failed")]
          /\ build_lock' = FALSE
          /\ lock_owner' = 0
          /\ Leave(c, Return("build", "raise", "RuntimeError", call[c].session_id,
                             call[c].build))
  /\ UNCHANGED <<graph_build_tasks, last_delivery, text_vars, store_vars, red>>

\* _worker of build_lightrag_graph_for_session: result.append(res), or
\* error.append(e) for any BaseException; the thread ends.
BWorker(c, outcome) ==
  /\ call[c].pc = "b_join"
  /\ builds[call[c].build].state = "running"
  /\ builds' = [builds EXCEPT ![call[c].build] = Over("ended")]
  /\ call' = [call EXCEPT ![c].outcome = outcome]
  /\ ret' = NoRet
  /\ UNCHANGED <<build_lock, lock_owner, graph_build_tasks, last_delivery,
                 text_vars, store_vars, red>>

\* What the try-block ends with after thread.join(): raise error[0], the
\* fallback summary when there is no result, or return result[0].
Joined(sid, w, outcome) ==
  IF outcome \in Raised THEN Return("build", "raise", outcome, sid, w)
  ELSE IF outcome = "none" THEN Return("build", "return", "fallback", sid, w)
  ELSE Return("build", "return", outcome, sid, w)

\* The release written after the try-block instead of in a finally-clause: an
\* exception of the worker leaves with the lock held.
BJoinNoFinally(c) ==
  /\ call[c].pc = "b_join"
  /\ builds[call[c].build].state = "ended"
  /\ build_lock' = (call[c].outcome \in Raised)
  /\ lock_owner' = IF call[c].outcome \in Raised THEN lock_owner ELSE 0
  /\ Leave(c, Joined(call[c].session_id, call[c].build, call[c].outcome))
  /\ UNCHANGED <<graph_build_tasks, builds, last_delivery, text_vars, store_vars, red>>

\* thread.join() returns; the try-block ends; finally: _build_lock.release();
\* the caller gets the result or the exception.
BJoin(c) ==
  /\ call[c].pc = "b_join"
  /\ builds[call[c].build].state = "ended"
  /\ build_lock' = FALSE
  /\ lock_owner' = 0
  /\ Leave(c, Joined(call[c].session_id, call[c].build, call[c].outcome))
  /\ UNCHANGED <<graph_build_tasks, builds, last_delivery, text_vars, store_vars, red>>

(* start_graph_build_async *)

\* if session_id in _graph_build_tasks
SCheck(c, sid) ==
  /\ call[c].pc = "idle"
  /\ Len(builds) + StartsInFlight < MaxBuilds
  /\ call' = [call EXCEPT ![c] =
       [NoCall EXCEPT !.session_id = sid,
                      !.pc = IF graph_build_tasks[sid].present
                             THEN "s_read" ELSE "s_acquire"]]
  /\ ret' = NoRet
  /\ UNCHANGED <<build_lock, lock_owner, graph_build_tasks, builds, last_delivery,
                 text_vars, store_vars, red>>

\* task = _graph_build_tasks[session_id]; thread = task.get("thread")
SRead(c) ==
  /\ call[c].pc = "s_read"
  /\ IF ~graph_build_tasks[call[c].session_id].present
     THEN Leave(c, Return("start", "raise", "KeyError", call[c].session_id, 0))
     ELSE /\ call' = [call EXCEPT
                 ![c].task = graph_build_tasks[call[c].session_id],
                 ![c].pc = IF graph_build_tasks[call[c].session_id].thread = 0
                           THEN "s_acquire" ELSE "s_alive"]
          /\ ret' = NoRet
  /\ UNCHANGED <<build_lock, lock_owner, graph_build_tasks, builds, last_delivery,
                 text_vars, store_vars, red>>

\* if thread and thread.is_alive(): return False
SAlive(c) ==
  /\ call[c].pc = "s_alive"
  /\ IF is_alive(builds[call[c].task.thread])
     THEN Leave(c, Return("start", "bool", "False", call[c].session_id, 0))
     ELSE Goto(c, "s_acquire")
  /\ UNCHANGED <<build_lock, lock_owner, graph_build_tasks, builds, last_delivery,
                 text_vars, store_vars, red>>

\* The record written before the lock is tried: a rejected start leaves a
\* running record behind.
SAcquireRecordFirst(c) ==
  /\ call[c].pc = "s_acquire"
  /\ graph_build_tasks' =
       [graph_build_tasks EXCEPT ![call[c].session_id] = RunningTask(Len(builds) + 1)]
  /\ IF ~acquire(build_lock).got
     THEN /\ Leave(c, Return("start", "bool", "False", call[c].session_id, 0))
          /\ UNCHANGED <<build_lock, lock_owner, builds>>
     ELSE /\ build_lock' = acquire(build_lock).locked
          /\ lock_owner' = Len(builds) + 1
          /\ builds' = Append(builds, NewBuild(call[c].session_id, "async"))
          /\ call' = [call EXCEPT ![c].pc = "s_record",
                                  ![c].build = Len(builds) + 1]
          /\ ret' = NoRet
  /\ UNCHANGED <<last_delivery, text_vars, store_vars, red>>

\* if not _build_lock.acquire(blocking=False): return False; then the thread
\* object is made
SAcquire(c) ==
  /\ call[c].pc = "s_acquire"
  /\ IF ~acquire(build_lock).got
     THEN /\ Leave(c, Return("start", "bool", "False", call[c].session_id, 0))
          /\ UNCHANGED <<build_lock, lock_owner, builds>>
     ELSE /\ build_lock' = acquire(build_lock).locked
          /\ lock_owner' = Len(builds) + 1
          /\ builds' = Append(builds, NewBuild(call[c].session_id, "async"))
          /\ call' = [call EXCEPT ![c].pc = "s_record",
                                  ![c].build = Len(builds) + 1]
          /\ ret' = NoRet
  /\ UNCHANGED <<graph_build_tasks, last_delivery, text_vars, store_vars, red>>

\* _graph_build_tasks[session_id] = {"thread": thread, "done": False, ...}
SRecord(c) ==
  /\ call[c].pc = "s_record"
  /\ graph_build_tasks' =
       [graph_build_tasks EXCEPT ![call[c].session_id] = RunningTask(call[c].build)]
  /\ last_delivery' = [last_delivery EXCEPT ![call[c].session_id] = FALSE]
  /\ call' = [Unclean(c, call[c].session_id) EXCEPT ![c].pc = "s_start"]
  /\ ret' = NoRet
  /\ UNCHANGED <<build_lock, lock_owner, builds, text_vars, store_vars, red>>

\* thread.start(); return True -- or the thread cannot be started (RuntimeError)
SStart(c, started) ==
  /\ call[c].pc = "s_start"
  /\ builds' = [builds EXCEPT ![call[c].build] =
                  IF started THEN [@ EXCEPT !.state = "running"]
                  ELSE Over("failed")]
  /\ Leave(c, IF started
              THEN Return("start", "bool", "True", call[c].session_id, call[c].build)
              ELSE Return("start", "raise", "RuntimeError", call[c].session_id,
                          call[c].build))
  /\ UNCHANGED <<build_lock, lock_owner, graph_build_tasks, last_delivery,
                 text_vars, store_vars, red>>

\* The registry after the try-statement of the worker w of sid: the record of
\* a result or of an Exception is written; any other BaseException passes.
worker_record(tasks, sid, w, outcome) ==
  IF outcome = "BaseException" THEN tasks
  ELSE [tasks EXCEPT ![sid] = DoneTask(w, PayloadOf(outcome))]

\* _worker of start_graph_build_async up to its finally-clause
SWorker(w, outcome) ==
  /\ builds[w].mode = "async"
  /\ builds[w].state = "running"
  /\ graph_build_tasks' =
       worker_record(graph_build_tasks, builds[w].session_id, w, outcome)
  /\ builds' = [builds EXCEPT ![w].state = "finally"]
  /\ ret' = NoRet
  /\ UNCHANGED <<build_lock, lock_owner, call, last_delivery, text_vars,
                 store_vars, red>>

\* finally: _build_lock.release()
SWorkerRelease(w) ==
  /\ builds[w].mode = "async"
  /\ builds[w].state = "finally"
  /\ build_lock' = FALSE
  /\ lock_owner' = 0
  /\ builds' = [builds EXCEPT ![w].state = "exiting"]
  /\ ret' = NoRet
  /\ UNCHANGED <<graph_build_tasks, call, last_delivery, text_vars,
                 store_vars, red>>

\* The thread of the worker ends.
SWorkerExit(w) ==
  /\ builds[w].mode = "async"
  /\ builds[w].state = "exiting"
  /\ builds' = [builds EXCEPT ![w] = Over("ended")]
  /\ ret' = NoRet
  /\ UNCHANGED <<build_lock, lock_owner, graph_build_tasks, call,
                 last_delivery, text_vars, store_vars, red>>

(* get_graph_build_status *)

\* if session_id not in _graph_build_tasks: return (False, None, None)
PCheck(c, sid) ==
  /\ call[c].pc = "idle"
  /\ IF ~graph_build_tasks[sid].present
     THEN /\ ret' = [Return("status", "status", "not_done", sid, 0)
                     EXCEPT !.after_delivery = last_delivery[sid], !.clean = TRUE]
          /\ UNCHANGED call
     ELSE /\ call' = [call EXCEPT ![c] =
               [NoCall EXCEPT !.pc = "p_read", !.session_id = sid, !.clean = TRUE,
                              !.saw_done = graph_build_tasks[sid].done]]
          /\ ret' = NoRet
  /\ UNCHANGED <<build_lock, lock_owner, graph_build_tasks, builds, last_delivery,
                 text_vars, store_vars, red>>

\* task = _graph_build_tasks[session_id]; if not task.get("done"): return
\* (False, None, None); result = task.get("result"); error = task.get("error")
PRead(c) ==
  /\ call[c].pc = "p_read"
  /\ IF ~graph_build_tasks[call[c].session_id].present
     THEN Leave(c, StatusReturn(c, "raise", "KeyError", 0))
     ELSE IF ~graph_build_tasks[call[c].session_id].done
     THEN Leave(c, StatusReturn(c, "status", "not_done", 0))
     ELSE /\ call' = [call EXCEPT
                 ![c].task = graph_build_tasks[call[c].session_id],
                 ![c].pc = "p_del"]
          /\ ret' = NoRet
  /\ UNCHANGED <<build_lock, lock_owner, graph_build_tasks, builds, last_delivery,
                 text_vars, store_vars, red>>

\* The poll without its del statement.
delete_task_kept(tasks, sid) == tasks

\* The registry after `del _graph_build_tasks[session_id]`.
delete_task(tasks, sid) == [tasks EXCEPT ![sid] = NoTask]

\* del _graph_build_tasks[session_id]; return (True, ...) for error and result
PDel(c) ==
  /\ call[c].pc = "p_del"
  /\ IF ~graph_build_tasks[call[c].session_id].present
     THEN /\ Leave(c, StatusReturn(c, "raise", "KeyError", 0))
          /\ UNCHANGED <<graph_build_tasks, last_delivery>>
     ELSE /\ graph_build_tasks' = delete_task(graph_build_tasks, call[c].session_id)
          /\ last_delivery' =
               [last_delivery EXCEPT ![call[c].session_id] = call[c].clean \/ @]
          /\ ret' = [StatusReturn(c, "status", status_of(call[c].task.payload),
                                   call[c].task.build)
                      EXCEPT !.html = IF status_of(call[c].task.payload) = "result"
                                      THEN "graph_html" ELSE "None"]
          /\ call' = [Unclean(c, call[c].session_id) EXCEPT ![c] = NoCall]
  /\ UNCHANGED <<build_lock, lock_owner, builds, text_vars, store_vars, red>>

(* is_graph_building *)

\* if session_id not in _graph_build_tasks: return False
ICheck(c, sid) ==
  /\ call[c].pc = "idle"
  /\ IF ~graph_build_tasks[sid].present
     THEN /\ ret' = Return("building", "bool", "False", sid, 0)
          /\ UNCHANGED call
     ELSE /\ call' = [call EXCEPT ![c] =
               [NoCall EXCEPT !.pc = "i_read", !.session_id = sid]]
          /\ ret' = NoRet
  /\ UNCHANGED <<build_lock, lock_owner, graph_build_tasks, builds, last_delivery,
                 text_vars, store_vars, red>>

\* task = _graph_build_tasks[session_id]; return not task.get("done", True)
IRead(c) ==
  /\ call[c].pc = "i_read"
  /\ IF ~graph_build_tasks[call[c].session_id].present
     THEN Leave(c, Return("building", "raise", "KeyError", call[c].session_id, 0))
     ELSE Leave(c, Return("building", "bool",
                          IF graph_build_tasks[call[c].session_id].done
                          THEN "False" ELSE "True",
                          call[c].session_id, 0))
  /\ UNCHANGED <<build_lock, lock_owner, graph_build_tasks, builds, last_delivery,
                 text_vars, store_vars, red>>

CoordNext ==
  \/ \E c \in Callers, sid \in Namespaces : BAcquire(c, sid)
  \/ \E c \in Callers, started \in BOOLEAN : BStart(c, started)
  \/ \E c \in Callers, outcome \in WorkerOutcomes : BWorker(c, outcome)
  \/ \E c \in Callers : BJoin(c)
  \/ \E c \in Callers, sid \in Namespaces : SCheck(c, sid)
  \/ \E c \in Callers : SRead(c)
  \/ \E c \in Callers : SAlive(c)
  \/ \E c \in Callers : SAcquire(c)
  \/ \E c \in Callers : SRecord(c)
  \/ \E c \in Callers, started \in BOOLEAN : SStart(c, started)
  \/ \E w \in 1..Len(builds), outcome \in WorkerOutcomes : SWorker(w, outcome)
  \/ \E w \in 1..Len(builds) : SWorkerRelease(w)
  \/ \E w \in 1..Len(builds) : SWorkerExit(w)
  \/ \E c \in Callers, sid \in Namespaces : PCheck(c, sid)
  \/ \E c \in Callers : PRead(c)
  \/ \E c \in Callers : PDel(c)
  \/ \E c \in Callers, sid \in Namespaces : ICheck(c, sid)
  \/ \E c \in Callers : IRead(c)

----------------------------------------------------------------------------
(* The size reducer of _build_lightrag_graph_for_session_async, lines      *)
(* 208-269.  An entity is its name; an edge of all_edges_data is a record  *)
(* [source, target], the empty string standing for an endpoint that is     *)
(* missing or empty (`if src:` fails).                                     *)

\* The entity names of the graph.
Names == {"A", "B", "C"}

\* The edges that get_all_edges may give.
MaxEdgeData == 2

\* The defaults of get_settings for the two limits.
DefaultMaxNodes == 300

DefaultMaxEdges == 500

\* int(os.getenv(name, default)): env is <<>> for a variable that is not set,
\* <<n>> for one set to the number n.
getenv_unset_zero(env, default) == IF env = <<>> THEN 0 ELSE env[1]

getenv_int(env, default) == IF env = <<>> THEN default ELSE env[1]

\* The reducer is not running.  env_max_nodes and env_max_edges are the two
\* environment variables as get_settings found them; node_degree[e] is
\* node_degree.get(e, 0), all 0 while the dict is not built.
NoReduce ==
  [pc |-> "off", env_max_nodes |-> <<>>, env_max_edges |-> <<>>,
   all_entities |-> <<>>, all_edges_data |-> <<>>, max_nodes |-> 0,
   max_edges |-> 0, node_degree |-> [e \in Names |-> 0],
   selected_entities |-> {}, nodes |-> {}, edges |-> <<>>]

\* node_degree after the loop of lines 216-222 has passed the first k edges.
RECURSIVE node_degree(_, _)
node_degree(all_edges_data, k) ==
  IF k = 0 THEN [e \in Names |-> 0]
  ELSE [e \in Names |->
          node_degree(all_edges_data, k - 1)[e]
            + (IF all_edges_data[k].source = e THEN 1 ELSE 0)
            + (IF all_edges_data[k].target = e THEN 1 ELSE 0)]

\* The sort that puts an entity before the entities of equal degree that came
\* earlier, as sorting by ascending degree and reversing the list does.
InsertBeforeEqual(sorted, e, degree) ==
  SelectSeq(sorted, LAMBDA x : degree[x] > degree[e]) \o <<e>>
    \o SelectSeq(sorted, LAMBDA x : degree[x] <= degree[e])

\* One entity more in the sorted list: sorted(..., reverse=True) is stable, so e
\* goes behind every entity of at least its degree.
InsertByDegree(sorted, e, degree) ==
  SelectSeq(sorted, LAMBDA x : degree[x] >= degree[e]) \o <<e>>
    \o SelectSeq(sorted, LAMBDA x : degree[x] < degree[e])

\* sorted(all_entities, key=lambda e: node_degree.get(e, 0), reverse=True), for
\* the first k entities.
RECURSIVE sorted_entities(_, _, _)
sorted_entities(all_entities, k, degree) ==
  IF k = 0 THEN <<>>
  ELSE InsertByDegree(sorted_entities(all_entities, k - 1, degree),
                      all_entities[k], degree)

\* Lines 213-237: selected_entities.
select_entities(all_entities, all_edges_data, max_nodes) ==
  IF Len(all_entities) > max_nodes
  THEN {sorted_entities(all_entities, Len(all_entities),
                        node_degree(all_edges_data, Len(all_edges_data)))[i] :
          i \in 1..max_nodes}
  ELSE {all_entities[i] : i \in 1..Len(all_entities)}

\* The pass that looks at the limit before it appends: `>` for `>=`.
EdgePassLate(all_edges_data, k, selected, max_edges, st) ==
  IF st.broke THEN st
  ELSE IF all_edges_data[k].source = "" \/ all_edges_data[k].target = "" THEN st
  ELSE IF all_edges_data[k].source \notin selected
          \/ all_edges_data[k].target \notin selected
  THEN st
  ELSE [edges |-> Append(st.edges, all_edges_data[k]),
        broke |-> Len(st.edges) + 1 > max_edges]

\* One pass of the loop of lines 248-269, at the k-th edge: st.edges is the
\* list so far, st.broke that the loop was left by its break.
EdgePass(all_edges_data, k, selected, max_edges, st) ==
  IF st.broke THEN st
  ELSE IF all_edges_data[k].source = "" \/ all_edges_data[k].target = "" THEN st
  ELSE IF all_edges_data[k].source \notin selected
          \/ all_edges_data[k].target \notin selected
  THEN st
  ELSE [edges |-> Append(st.edges, all_edges_data[k]),
        broke |-> Len(st.edges) + 1 >= max_edges]

RECURSIVE EdgePasses(_, _, _, _, _, _)

\* The passes at the edges lo..hi when the loop has come to them in st: none
\* after the break.
EdgeRest(all_edges_data, lo, hi, selected, max_edges, st) ==
  IF st.broke THEN st
  ELSE EdgePasses(all_edges_data, lo, hi, selected, max_edges, st)

\* The passes at the edges lo..hi, one after the other.  The range is halved
\* so that the evaluation of a loop over hundreds of edges stays shallow.
EdgePasses(all_edges_data, lo, hi, selected, max_edges, st) ==
  IF lo > hi THEN st
  ELSE IF lo = hi THEN EdgePass(all_edges_data, lo, selected, max_edges, st)
  ELSE EdgeRest(all_edges_data, (lo + hi) \div 2 + 1, hi, selected, max_edges,
                EdgePasses(all_edges_data, lo, (lo + hi) \div 2, selected,
                           max_edges, st))

\* The loop of lines 248-269 from the k-th edge on.
EdgeLoop(all_edges_data, k, selected, max_edges, edges) ==
  EdgePasses(all_edges_data, k, Len(all_edges_data), selected, max_edges,
             [edges |-> edges, broke |-> FALSE]).edges

\* Lines 209-237: the limits are read and the entities selected.
RSelect ==
  /\ red.pc = "select"
  /\ red' = [red EXCEPT
       !.node_degree =
          IF Len(red.all_entities) > red.max_nodes
          THEN node_degree(red.all_edges_data, Len(red.all_edges_data))
          ELSE @,
       !.selected_entities =
          select_entities(red.all_entities, red.all_edges_data, red.max_nodes),
       !.pc = "nodes"]
  /\ UNCHANGED <<text_vars, store_vars, coord_vars>>

\* Lines 240-244: one node for each selected entity.
RNodes ==
  /\ red.pc = "nodes"
  /\ red' = [red EXCEPT !.nodes = red.selected_entities, !.pc = "edges"]
  /\ UNCHANGED <<text_vars, store_vars, coord_vars>>

\* Lines 247-269: the edges between selected entities, up to the limit.
REdges ==
  /\ red.pc = "edges"
  /\ red' = [red EXCEPT
       !.edges = EdgeLoop(red.all_edges_data, 1, red.selected_entities,
                          red.max_edges, <<>>),
       !.pc = "done"]
  /\ UNCHANGED <<text_vars, store_vars, coord_vars>>

ReduceNext == RSelect \/ RNodes \/ REdges

----------------------------------------------------------------------------
(* Specifications *)

\* The extractor alone, on every response text of TextInputs.
InitText ==
  /\ extraction \in TextInputs
  /\ json_block = <<>>
  /\ data = NoData
  /\ result = NoResult
  /\ tpc = "start"
  /\ store_nodes = {}
  /\ store_rels = {}
  /\ gpc = [b \in Builders |-> "idle"]
  /\ g = [b \in Builders |-> Idle]
  /\ gret = [b \in Builders |-> NoReturn]
  /\ store_calls = 0
  /\ build_lock = FALSE
  /\ lock_owner = 0
  /\ graph_build_tasks = [sid \in Namespaces |-> NoTask]
  /\ builds = <<>>
  /\ call = [c \in Callers |-> NoCall]
  /\ ret = NoRet
  /\ last_delivery = [sid \in Namespaces |-> FALSE]
  /\ red = NoReduce

SpecText == InitText /\ [][TextNext]_vars

\* Nothing has run: the extractor has no response, the store is empty, the
\* coordinator holds no lock and no record.
Init ==
  /\ extraction = <<>>
  /\ json_block = <<>>
  /\ data = NoData
  /\ result = NoResult
  /\ tpc = "off"
  /\ store_nodes = {}
  /\ store_rels = {}
  /\ gpc = [b \in Builders |-> "idle"]
  /\ g = [b \in Builders |-> Idle]
  /\ gret = [b \in Builders |-> NoReturn]
  /\ store_calls = 0
  /\ build_lock = FALSE
  /\ lock_owner = 0
  /\ graph_build_tasks = [sid \in Namespaces |-> NoTask]
  /\ builds = <<>>
  /\ call = [c \in Callers |-> NoCall]
  /\ ret = NoRet
  /\ last_delivery = [sid \in Namespaces |-> FALSE]
  /\ red = NoReduce

\* The size reducer alone: every list of distinct entities, every list of up to
\* MaxEdgeData edges, a node limit from 0 on and a positive edge limit.
InitReduce ==
  /\ red \in
       {[NoReduce EXCEPT !.pc = "select", !.all_entities = es,
                         !.all_edges_data = ed,
                         !.env_max_nodes = <<mn>>, !.env_max_edges = <<me>>,
                         !.max_nodes = getenv_int(<<mn>>, DefaultMaxNodes),
                         !.max_edges = getenv_int(<<me>>, DefaultMaxEdges)] :
          es \in {q \in UNION {[1..k -> Names] : k \in 0..Cardinality(Names)} :
                    \A i \in 1..Len(q), j \in 1..Len(q) : i # j => q[i] # q[j]},
          ed \in UNION {[1..k -> {[source |-> a, target |-> b] :
                                    a \in Names, b \in Names} \cup
                                  {[source |-> "", target |-> "A"],
                                   [source |-> "A", target |-> ""]}] :
                          k \in 0..MaxEdgeData},
          mn \in 0..Cardinality(Names),
          me \in 1..MaxEdgeData}
  /\ extraction = <<>>
  /\ json_block = <<>>
  /\ data = NoData
  /\ result = NoResult
  /\ tpc = "off"
  /\ store_nodes = {}
  /\ store_rels = {}
  /\ gpc = [b \in Builders |-> "idle"]
  /\ g = [b \in Builders |-> Idle]
  /\ gret = [b \in Builders |-> NoReturn]
  /\ store_calls = 0
  /\ build_lock = FALSE
  /\ lock_owner = 0
  /\ graph_build_tasks = [sid \in Namespaces |-> NoTask]
  /\ builds = <<>>
  /\ call = [c \in Callers |-> NoCall]
  /\ ret = NoRet
  /\ last_delivery = [sid \in Namespaces |-> FALSE]

SpecReduce == InitReduce /\ [][ReduceNext]_vars

\* The size reducer with the environment variables of the limits set or not
\* set, on edge sets of about DefaultMaxEdges edges and entities within the
\* node limit.
InitDefaults ==
  /\ red \in
       {[NoReduce EXCEPT !.pc = "select", !.all_entities = es,
                         !.all_edges_data = [i \in 1..n |-> ed],
                         !.env_max_nodes = mn, !.env_max_edges = me,
                         !.max_nodes = getenv_int(mn, DefaultMaxNodes),
                         !.max_edges = getenv_int(me, DefaultMaxEdges)] :
          es \in {<<"A", "B">>, <<"B", "A">>, <<"A", "B", "C">>, <<"C", "A">>},
          ed \in {[source |-> "A", target |-> "B"], [source |-> "A", target |-> "A"],
                  [source |-> "A", target |-> "C"]},
          n \in (DefaultMaxEdges - 1)..(DefaultMaxEdges + 1),
          mn \in {<<>>, <<Cardinality(Names)>>},
          me \in {<<>>, <<1>>, <<DefaultMaxEdges + 1>>}}
  /\ extraction = <<>>
  /\ json_block = <<>>
  /\ data = NoData
  /\ result = NoResult
  /\ tpc = "off"
  /\ store_nodes = {}
  /\ store_rels = {}
  /\ gpc = [b \in Builders |-> "idle"]
  /\ g = [b \in Builders |-> Idle]
  /\ gret = [b \in Builders |-> NoReturn]
  /\ store_calls = 0
  /\ build_lock = FALSE
  /\ lock_owner = 0
  /\ graph_build_tasks = [sid \in Namespaces |-> NoTask]
  /\ builds = <<>>
  /\ call = [c \in Callers |-> NoCall]
  /\ ret = NoRet
  /\ last_delivery = [sid \in Namespaces |-> FALSE]

SpecDefaults == InitDefaults /\ [][ReduceNext]_vars

\* Two builders calling build_graph_for_session against one graph store.
SpecStore == Init /\ [][StoreNext]_vars

\* Two callers of the coordinator's four functions.
Spec == Init /\ [][CoordNext]_vars

----------------------------------------------------------------------------
(* The coordinator: properties *)

\* The workers that are executing the graph build.
Executing == {w \in 1..Len(builds) : builds[w].state = "running"}

\* C1: across every interleaving of blocking calls and non-blocking starts, for
\* any session ids, at most one build worker is executing the graph build, and
\* a worker executes only while the build lock is held on its behalf.
C1_OneBuildAtATime ==
  /\ Cardinality(Executing) <= 1
  /\ \A w \in Executing : build_lock /\ lock_owner = w

\* A blocking call is turned away while the worker of a non-blocking start of
\* the same session id is executing.
C1_Witness ==
  /\ ret.op = "build" /\ ret.kind = "busy"
  /\ \E w \in Executing :
       builds[w].mode = "async" /\ builds[w].session_id = ret.session_id

\* The caller's last step was a poll that handed out a done record.
Delivered == ret.op = "status" /\ ret.kind = "status" /\ ret.val # "not_done"

\* C4: one-shot delivery.  A poll that finds the record of its session id done,
\* and is alone with it, answers is_done=True with that record and removes it;
\* from then until a new start writes a record the session id has no record, and
\* a poll answers (False, None, None).
C4_OneShotDelivery ==
  /\ \A c \in Callers :
       call[c].pc = "p_del" /\ call[c].clean =>
         /\ call[c].task.done
         /\ graph_build_tasks[call[c].session_id] = call[c].task
  /\ Delivered =>
       /\ ret.val \in {"result", "error", "unknown"}
       /\ ret.build \in 1..Len(builds)
       /\ builds[ret.build].state \in {"finally", "exiting", "ended"}
       /\ ~graph_build_tasks[ret.session_id].present
  /\ ret.op = "status" /\ ret.clean /\ ret.saw_done => Delivered
  /\ \A sid \in Namespaces : last_delivery[sid] => ~graph_build_tasks[sid].present
  /\ ret.op = "status" /\ ret.after_delivery =>
       ret.kind = "status" /\ ret.val = "not_done"

\* The poll after the delivery, no start in between, answers (False, None, None).
C4_Witness ==
  /\ ret.op = "status" /\ ret.kind = "status" /\ ret.val = "not_done"
  /\ ret.after_delivery

\* C5: whenever the worker of a started non-blocking build has ended, by
\* returning or by raising anything, the record of its session id is done: no
\* record stays in the running state for a worker that is past its build.
C5_NoRunningRecordAfterWorker ==
  \A w \in 1..Len(builds), sid \in Namespaces :
    graph_build_tasks[sid] = RunningTask(w) =>
      builds[w].state \notin {"finally", "exiting", "ended"}

\* C6: in blocking mode the lock is released on every exit path past the
\* acquire -- a result, the fallback summary, an exception of any kind from the
\* worker, a thread that cannot be started -- and an exception of the worker is
\* the one the caller gets, the lock being free of this build by then.
C6_BlockingReleases ==
  [][\A c \in Callers :
       call[c].pc \in {"b_start", "b_join"} /\ call'[c].pc = "idle" =>
         /\ ~build_lock'
         /\ lock_owner' # call[c].build
         /\ ret'.op = "build" /\ ret'.build = call[c].build
         /\ call[c].pc = "b_join" /\ call[c].outcome \in Raised =>
              ret'.kind = "raise" /\ ret'.val = call[c].outcome
         /\ call[c].pc = "b_join" /\ call[c].outcome = "result" =>
              ret'.kind = "return" /\ ret'.val = "result"
         /\ call[c].pc = "b_start" =>
              ret'.kind = "raise" /\ ret'.val = "RuntimeError"]_vars

\* The blocking caller gets the BaseException of its worker, and the lock is free.
C6_Witness ==
  /\ ret.op = "build" /\ ret.kind = "raise" /\ ret.val = "BaseException"
  /\ ~build_lock

\* The callers that hold the lock in build_lightrag_graph_for_session.
Attempting == {c \in Callers : call[c].pc \in {"b_start", "b_join"}}

\* C7: a blocking call made while the lock is held answers the busy summary at
\* once and changes neither the lock nor the registry nor any caller or worker;
\* a blocking call goes on only when the lock is free, so of two concurrent
\* attempts one runs and the other reports contention.
C7_BusyWithoutEffect ==
  [][/\ ret'.op = "build" /\ ret'.kind = "busy" =>
          /\ build_lock
          /\ UNCHANGED <<build_lock, lock_owner, graph_build_tasks, builds, call>>
     /\ \A c \in Callers :
          call[c].pc = "idle" /\ call'[c].pc = "b_start" =>
            /\ ~build_lock
            /\ build_lock' /\ lock_owner' = call'[c].build
     /\ \A c \in Callers :
          call[c].pc = "idle" /\ build_lock /\ call'[c] # call[c] =>
            call'[c].pc # "b_start"
     /\ Cardinality(Attempting') <= 1]_vars

\* Of two concurrent blocking attempts one is waiting for its worker and the
\* other got the busy summary.
C7_Witness ==
  /\ ret.op = "build" /\ ret.kind = "busy"
  /\ \E c \in Callers :
       /\ call[c].pc = "b_join"
       /\ builds[call[c].build].state = "running"
       /\ call[c].session_id = ret.session_id

\* The session id has a running task: a record that is not done, of a build
\* that holds the lock.
HasRunningTask(sid) ==
  /\ graph_build_tasks[sid].present
  /\ ~graph_build_tasks[sid].done
  /\ builds[graph_build_tasks[sid].thread].state \in {"created", "running", "finally"}
  /\ lock_owner = graph_build_tasks[sid].thread

\* C8: while its session id has a running task, no step of
\* start_graph_build_async gets the lock or changes a record or a worker, and
\* the call answers False; and a start that finds the lock held for a build of
\* another session id answers False and creates no record.
C8_StartRejected ==
  [][\A c \in Callers :
       call[c].pc \in {"s_read", "s_alive", "s_acquire"} /\ call'[c] # call[c] =>
         /\ HasRunningTask(call[c].session_id) =>
              /\ UNCHANGED <<build_lock, lock_owner, graph_build_tasks, builds>>
              /\ call'[c].pc # "s_record"
              /\ call'[c].pc = "idle" =>
                   ret'.op = "start" /\ ret'.kind = "bool" /\ ret'.val = "False"
         /\ /\ call[c].pc = "s_acquire"
            /\ build_lock
            /\ builds[lock_owner].session_id # call[c].session_id
            => /\ UNCHANGED <<build_lock, lock_owner, graph_build_tasks, builds>>
               /\ call'[c].pc = "idle"
               /\ ret'.op = "start" /\ ret'.kind = "bool" /\ ret'.val = "False"]_vars

\* A start answered False for a session id without a record while the worker
\* of another session id was executing.
C8_Witness ==
  /\ ret.op = "start" /\ ret.kind = "bool" /\ ret.val = "False"
  /\ ~graph_build_tasks[ret.session_id].present
  /\ \E w \in Executing : builds[w].session_id # ret.session_id

\* C12: in non-blocking mode an exception of the build worker reaches no
\* caller: the step of the worker that ends its build changes no call and
\* returns nothing, and a call of start_graph_build_async or of
\* get_graph_build_status raises nothing but its own KeyError or RuntimeError;
\* the poll that is alone with a done record answers, and
\* the poll that hands out the record of an error answers is_done=True with the
\* summary that holds the error message and graph_html=None; and every poll
\* that answers is_done=True gives one of the three summaries, none of them
\* empty.
C12_WorkerErrorSurfaced ==
  [][/\ \A w \in 1..Len(builds) :
          builds[w].mode = "async" /\ builds[w].state = "running"
            /\ builds'[w].state # "running"
            => UNCHANGED call /\ ret' = NoRet
     /\ ret'.op \in {"start", "status"} /\ ret'.kind = "raise" =>
          ret'.val \in {"KeyError", "RuntimeError"}
     /\ \A c \in Callers :
          call[c].pc = "p_del" /\ call[c].clean /\ call'[c].pc = "idle" =>
            ret'.kind = "status"
     /\ \A c \in Callers :
          call[c].pc = "p_del" /\ call'[c].pc = "idle" /\ ret'.kind = "status" =>
            /\ ret'.val \in {"result", "error", "unknown"}
            /\ call[c].task.payload = "error" =>
                 ret'.val = "error" /\ ret'.html = "None"
            /\ call[c].task.payload = "empty_error" =>
                 ret'.val = "unknown" /\ ret'.html = "None"
     /\ ret'.op = "status" /\ ret'.kind = "status" /\ ret'.val # "not_done" =>
          ret'.val \in {"result", "error", "unknown"}]_vars

\* A poll handed out the error of a worker that raised: the worker is over and
\* the lock is free.
C12_Witness ==
  /\ ret.op = "status" /\ ret.kind = "status" /\ ret.val = "error"
  /\ ret.html = "None"
  /\ ret.build \in 1..Len(builds) /\ builds[ret.build].state = "ended"
  /\ ~build_lock

\* C11: every failure path of a build entry point of the coordinator ends with
\* a summary string for the caller: no call of build_lightrag_graph_for_session
\* or of get_graph_build_status ends in an exception.
C11_FailureGivesSummary == ret.op \in {"build", "status"} => ret.kind # "raise"

\* The workers of non-blocking builds of a session id that are executing.
AsyncExecuting(sid) ==
  {w \in Executing : builds[w].mode = "async" /\ builds[w].session_id = sid}

\* C23: while the worker of a started non-blocking build of a session id is
\* executing, a call of is_graph_building for it that ends answers True, and a
\* call of get_graph_build_status for it that ends answers (False, None, None)
\* and leaves the record as it is.
C23_RunningRecordVisible ==
  [][\A sid \in Namespaces :
       AsyncExecuting(sid) # {} /\ ret'.session_id = sid =>
         /\ ret'.op = "building" => ret'.kind = "bool" /\ ret'.val = "True"
         /\ ret'.op = "status" =>
              /\ ret'.kind = "status" /\ ret'.val = "not_done"
              /\ graph_build_tasks'[sid] = graph_build_tasks[sid]]_vars

\* C26: a record that is done leaves the registry, or changes, only in the
\* step of a poll that returns it: no start and no worker overwrites the
\* result of a build that no poll has handed out.
C26_DoneRecordKeptUntilPolled ==
  [][\A sid \in Namespaces :
       /\ graph_build_tasks[sid].present /\ graph_build_tasks[sid].done
       /\ graph_build_tasks'[sid] # graph_build_tasks[sid]
       => /\ ret'.op = "status" /\ ret'.kind = "status" /\ ret'.session_id = sid
          /\ ret'.val = status_of(graph_build_tasks[sid].payload)
          /\ ret'.build = graph_build_tasks[sid].build]_vars

\* C27: whenever the worker of a non-blocking build of a session id is
\* executing, the registry holds a record of the session id that is not done,
\* whatever a concurrent poll does.
C27_RunningRecordNotDeleted ==
  \A sid \in Namespaces :
    AsyncExecuting(sid) # {} =>
      graph_build_tasks[sid].present /\ ~graph_build_tasks[sid].done

\* C28: when every call has ended and no thread of a build is left to run,
\* the lock is free: a later build request can acquire it.
C28_LockReleasedInTheEnd ==
  /\ \A c \in Callers : call[c].pc = "idle"
  /\ \A w \in 1..Len(builds) : builds[w].state \in {"ended", "failed"}
  => ~build_lock

----------------------------------------------------------------------------
(* The size reducer: properties *)

\* The degree of an entity: the edges it is the source of plus the edges it is
\* the target of.
Degree(e) ==
  Cardinality({i \in 1..Len(red.all_edges_data) : red.all_edges_data[i].source = e})
    + Cardinality({i \in 1..Len(red.all_edges_data) :
                     red.all_edges_data[i].target = e})

\* The place of an entity in all_entities.
PlaceOf(e) == CHOOSE i \in 1..Len(red.all_entities) : red.all_entities[i] = e

\* The entities given.
Entities == {red.all_entities[i] : i \in 1..Len(red.all_entities)}

\* C16: with at most max_nodes entities (max_nodes >= 0) all of them are
\* selected; with more, exactly max_nodes are, and each selected entity has a
\* higher degree than each unselected one, or the same degree and an earlier
\* place in the enumeration: the selection is the head of the list ordered by
\* degree descending, ties in enumeration order.
C16_TopByDegree ==
  red.pc \in {"nodes", "edges", "done"} =>
    /\ red.selected_entities \subseteq Entities
    /\ Len(red.all_entities) <= red.max_nodes => red.selected_entities = Entities
    /\ Len(red.all_entities) > red.max_nodes =>
         /\ Cardinality(red.selected_entities) = red.max_nodes
         /\ \A x \in red.selected_entities, u \in Entities \ red.selected_entities :
              \/ Degree(x) > Degree(u)
              \/ Degree(x) = Degree(u) /\ PlaceOf(x) < PlaceOf(u)

\* Three entities, two of them of equal degree, and room for two: the entity
\* of the highest degree and the earlier of the other two are selected.
C16_Witness ==
  /\ red.pc = "done"
  /\ red.all_entities = <<"C", "B", "A">>
  /\ red.max_nodes = 2
  /\ Degree("A") = 2 /\ Degree("B") = 1 /\ Degree("C") = 1
  /\ red.selected_entities = {"A", "C"}

\* The edges of the full edge set that are incident to an entity.
Incident(e) ==
  {i \in 1..Len(red.all_edges_data) :
     red.all_edges_data[i].source = e \/ red.all_edges_data[i].target = e}

\* C22: when the entities are ranked, the degree of each is the number of
\* edges incident to it, an edge counted once whether the entity is its
\* source, its target or both.
C22_DegreeCountsIncidentEdges ==
  red.pc \in {"nodes", "edges", "done"} /\ Len(red.all_entities) > red.max_nodes =>
    \A e \in Entities : red.node_degree[e] = Cardinality(Incident(e))

\* The edges of all_edges_data between selected entities: their places.
Qualifying ==
  {i \in 1..Len(red.all_edges_data) :
     /\ red.all_edges_data[i].source \in red.selected_entities
     /\ red.all_edges_data[i].target \in red.selected_entities}

\* The place of the k-th qualifying edge.
NthQualifying(k) ==
  CHOOSE i \in Qualifying : Cardinality({j \in Qualifying : j <= i}) = k

\* C17: for a positive max_edges the output edges are the first
\* min(max_edges, number of qualifying edges) qualifying edges in scan order: no
\* more than max_edges, each with both endpoints among the output nodes.
C17_FirstQualifyingEdges ==
  red.pc = "done" =>
    /\ Len(red.edges) = Min(red.max_edges, Cardinality(Qualifying))
    /\ \A k \in 1..Len(red.edges) : red.edges[k] = red.all_edges_data[NthQualifying(k)]
    /\ Len(red.edges) <= red.max_edges
    /\ \A k \in 1..Len(red.edges) :
         red.edges[k].source \in red.nodes /\ red.edges[k].target \in red.nodes

\* Two qualifying edges behind one that does not qualify, and a limit of one:
\* the first qualifying edge alone is the output.
C17_Witness ==
  /\ red.pc = "done"
  /\ red.max_edges = 1
  /\ Len(red.all_edges_data) = 2
  /\ Qualifying = {2}
  /\ red.edges = <<red.all_edges_data[2]>>

\* The edges of the full edge set with both endpoints given and among the
\* entities: their places.
ValidEdges ==
  {i \in 1..Len(red.all_edges_data) :
     /\ red.all_edges_data[i].source \in Entities
     /\ red.all_edges_data[i].target \in Entities}

----------------------------------------------------------------------------
(* The graph store: properties *)

\* C2: two builds of the same session id never interleave their store
\* operations: no two builders are both in the middle of an upsert of one
\* session id.
C2_NoInterleaving ==
  \A a \in Builders, b \in Builders :
    a # b /\ MidUpsert(a) /\ MidUpsert(b) => g[a].sid # g[b].sid

\* The ids of the nodes a builder was given.
GivenIds(b) ==
  {DictGet(Items(g[b].nodes)[i], K_id, None) : i \in 1..Len(Items(g[b].nodes))}

\* The ids of the nodes stored under the session id.
StoredIds(sid) == {n.id : n \in {m \in store_nodes : m.sid = sid}}

\* C3: after an upsert that ran alone on its session id, the nodes stored under
\* the session id are exactly the nodes it was given, whatever was stored before.
C3_ExactlyTheGivenNodes ==
  \A b \in Builders :
    gpc[b] = "html" /\ g[b].alone => StoredIds(g[b].sid) = GivenIds(b)

\* The relations stored under the session id.
StoredRels(sid) == {r \in store_rels : r.sid = sid}

\* C13: upsert idempotence.  An upsert that repeats the builder's last upsert --
\* the same response, the same session id, nothing else operating on the session
\* id between and during the two -- leaves under the session id the nodes, labels
\* and relations that the first one left.
C13_UpsertIdempotent ==
  \A b \in Builders :
    gpc[b] = "html" /\ g[b].twice /\ g[b].alone =>
      /\ {n \in store_nodes : n.sid = g[b].sid} = g[b].once.nodes
      /\ StoredRels(g[b].sid) = g[b].once.rels

\* The edge statement of b that comes back in this step: its parameters.
EdgeIssued(b) ==
  [source |-> DictGet(Items(g[b].edges)[g[b].i + 1], K_source, None),
   target |-> DictGet(Items(g[b].edges)[g[b].i + 1], K_target, None),
   type |-> DictGet(Items(g[b].edges)[g[b].i + 1], K_type, None)]

\* The relation of the session id for the k-th edge of b's batch.
BatchRel(b, k) ==
  [sid |-> g[b].sid,
   source |-> DictGet(Items(g[b].edges)[k], K_source, None),
   target |-> DictGet(Items(g[b].edges)[k], K_target, None),
   type |-> DictGet(Items(g[b].edges)[k], K_type, None)]

\* After b's upsert of a list of edge objects that ran alone, the relations of
\* the session id are the edges of the batch whose endpoints are stored.
BatchStored(b) ==
  gpc[b] = "html" /\ g[b].alone /\ IsList(g[b].edges)
    /\ (\A k \in 1..Len(g[b].edges[2]) : IsDict(g[b].edges[2][k])) =>
    StoredRels(g[b].sid) =
      {BatchRel(b, k) : k \in
         {j \in 1..Len(g[b].edges[2]) :
            EndpointsExist(store_nodes, g[b].sid, BatchRel(b, j).source,
                           BatchRel(b, j).target)}}

\* C14: dangling-edge tolerance.  An edge statement whose source or target has
\* no node under the session id comes back without an error, creates no relation
\* and no node, and the loop goes on; an edge statement whose endpoints both
\* exist creates its relation; and after an upsert that ran alone the relations
\* of the session id are exactly the edges of the batch whose endpoints are
\* stored, wherever the dangling edge stands in the list.
C14_DanglingEdgeSkipped ==
  [][/\ \A b \in Builders :
          gpc[b] = "edges" /\ g'[b].ops = g[b].ops + 1 =>
            IF EndpointsExist(store_nodes, g[b].sid, EdgeIssued(b).source,
                              EdgeIssued(b).target)
            THEN [sid |-> g[b].sid, source |-> EdgeIssued(b).source,
                  target |-> EdgeIssued(b).target, type |-> EdgeIssued(b).type]
                   \in store_rels'
            ELSE /\ UNCHANGED <<store_nodes, store_rels, gret>>
                 /\ gpc'[b] \in {"edges", "html"}
                 /\ ~g'[b].failed
     /\ \A b \in Builders : BatchStored(b)']_vars

\* An upsert that ran alone has ended; the first edge of its batch was dangling
\* and made neither a relation nor a node, the second one is stored.
C14_Witness ==
  \E b \in Builders :
    /\ gpc[b] = "html" /\ g[b].alone /\ g[b].response = DocDangleFirst
    /\ StoredRels(g[b].sid) =
         {[sid |-> g[b].sid, source |-> <<"str", <<"a">>>>,
           target |-> <<"str", <<"a">>>>, type |-> <<"str", <<"t">>>>]}
    /\ StoredIds(g[b].sid) = {<<"str", <<"a">>>>}

\* C15: a failure of the graph store at a statement of the upsert aborts the
\* build: the statement has no effect and is not issued again, the builder
\* issues no further store operation of that build, and the call ends in the
\* store's exception, not in a summary of success or of partial recovery.
C15_StoreFailureAborts ==
  [][\A b \in Builders :
       /\ g'[b].failed /\ ~g[b].failed =>
            /\ gpc[b] \in {"clear", "nodes", "edges"}
            /\ gpc'[b] = "idle"
            /\ gret'[b].kind = "raise" /\ gret'[b].exc \in StoreErrors
            /\ g'[b].ops = g[b].ops
            /\ UNCHANGED <<store_nodes, store_rels>>
       /\ g'[b].failed => gpc'[b] = "idle"
       /\ g[b].failed /\ g'[b].ops # g[b].ops =>
            g'[b].ops = 0 /\ store_calls' = store_calls + 1
       /\ gret'[b].kind \in {"updated", "partial"} /\ gret'[b] # gret[b] =>
            ~g[b].failed /\ ~g'[b].failed /\ gpc[b] = "html"]_vars

\* The store went out of reach after the upsert had written a node: the call
\* ended in the exception, and the node is left in the store.
C15_Witness ==
  \E b \in Builders :
    /\ gpc[b] = "idle" /\ g[b].failed /\ g[b].ops >= 2
    /\ gret[b].kind = "raise" /\ gret[b].exc = "ServiceUnavailable"
    /\ StoredIds(g[b].sid) # {}

\* The nodes stored under the session id.
StoredNodes(sid) == {n \in store_nodes : n.sid = sid}

\* C29: the nodes and the relations of a session id change only in a step of
\* an upsert for that session id: an upsert for one session id creates,
\* changes and deletes nothing of another, equal node ids or not.
C29_NamespaceIsolation ==
  [][\A sid \in Sessions :
       StoredNodes(sid)' # StoredNodes(sid) \/ StoredRels(sid)' # StoredRels(sid) =>
         \E b \in Builders :
           /\ gpc[b] \in {"clear", "nodes", "edges"}
           /\ g[b].sid = sid
           /\ g'[b].ops = g[b].ops + 1
           /\ \A o \in Builders \ {b} : gpc'[o] = gpc[o] /\ g'[o].ops = g[o].ops]_vars

\* The builder's second upsert of s1 has deleted what its first one stored,
\* while s2 holds a node of an id the builder was given, and a relation: they
\* are still there.
C29_Witness ==
  \E b \in Builders :
    /\ gpc[b] = "nodes" /\ g[b].ops = 1 /\ g[b].sid = "s1"
    /\ g[b].once.ok /\ g[b].once.sid = "s1" /\ g[b].once.nodes # {}
    /\ StoredNodes("s1") = {}
    /\ StoredIds("s2") \cap GivenIds(b) # {}
    /\ StoredRels("s2") # {}

\* C30: a call of build_graph_for_session changes nothing in the store in the
\* step that evaluates the response, and a call that ends there, with the
\* could-not-parse summary or an exception of the cascade, leaves every
\* builder as it was: no store operation is issued.  An upsert begins only for
\* a response that holds a brace and was parsed or salvaged; a call that ends
\* with the summary of success or of partial recovery has issued the delete
\* statement, one statement for each node and one for each edge, once.
C30_FailureLeavesStore ==
  [][/\ store_calls' # store_calls =>
          /\ UNCHANGED <<store_nodes, store_rels>>
          /\ gpc' = gpc =>
               /\ g' = g
               /\ \E b \in Builders : gret'[b].kind \in {"failure", "raise"}
     /\ \A b \in Builders :
          /\ gpc[b] = "idle" /\ gpc'[b] = "clear" =>
               /\ find(g'[b].response, "{") # -1
               /\ g'[b].kind \in {"parsed", "salvaged"}
               /\ g'[b].ops = 0
          /\ gpc[b] = "html" /\ gpc'[b] = "idle" =>
               /\ gret'[b].kind \in {"updated", "partial"}
               /\ gret'[b].kind = "partial" <=> g[b].kind = "salvaged"
               /\ g[b].ops = 1 + Len(Items(g[b].nodes)) + Len(Items(g[b].edges))
          /\ gret'[b].kind = "failure" /\ gret'[b] # gret[b] =>
               /\ gpc[b] = "idle" /\ gpc'[b] = "idle"
               /\ find(gret'[b].text, "{") = -1
               /\ UNCHANGED <<store_nodes, store_rels, g>>]_vars

\* A call ended with the could-not-parse summary after the builder's own
\* upsert: the store holds under that session id what the upsert left.
C30_Witness ==
  \E b \in Builders :
    /\ gpc[b] = "idle" /\ gret[b].kind = "failure"
    /\ g[b].once.ok /\ g[b].once.nodes # {}
    /\ StoredNodes(g[b].once.sid) = g[b].once.nodes
    /\ StoredRels(g[b].once.sid) = g[b].once.rels

----------------------------------------------------------------------------
(* The extractor: properties *)

\* C9: whatever the response text, the cascade does not raise: it ends with
\* nodes and edges or with the could-not-parse summary.
C9_NeverRaises == tpc = "done" => result.kind # "raise"

\* The nodes or edges the cascade ended with: their number.
Recovered ==
  IF result.kind \in {"parsed", "salvaged"}
  THEN (IF Iterable(result.nodes) THEN Len(Items(result.nodes)) ELSE 0)
       + (IF Iterable(result.edges) THEN Len(Items(result.edges)) ELSE 0)
  ELSE 0

\* C10: for a {"nodes": [...], "edges": [...]} document cut off after its 50th
\* character or later, with a complete node object left in the prefix, the
\* cascade ends with at least one node or edge.
C10_TruncationRecovers ==
  tpc = "done" /\ extraction \in Truncations(DocA, 50) \cup Truncations(DocAC, 50)
    => Recovered >= 1

\* C18: a response text without any "{" and any "}" ends in the
\* could-not-parse summary (which quotes the response) and no graph data.
C18_NoBraceIsFailure ==
  tpc = "done" /\ find(extraction, "{") = -1 /\ find(extraction, "}") = -1
    => result.kind = "failure" /\ result.nodes = None /\ result.edges = None

\* C19: a response text that is not itself fenced ends as the cascade on the
\* same text inside a fenced block ends, with a language tag on the opening
\* fence and without one.
C19_FenceEquivalence ==
  tpc = "done" /\ ~startswith_fence(strip(extraction))
    => /\ extraction_cascade(Fenced(extraction)) = result
       /\ extraction_cascade(FencedPlain(extraction)) = result

\* The spans of the damaged block, and the object each one parses to.
Spans == iter_json_objects(json_block)

SpanObject(k) == json_loads(Spans[k])

\* The class of the k-th span: an object with a nodes or an edges key is
\* skipped, one with source and target is an edge, else one with id and label
\* is a node.
ClassOf(k) ==
  IF ~SpanObject(k).ok \/ ~IsDict(SpanObject(k).val) THEN "skip"
  ELSE IF DictHas(SpanObject(k).val, K_nodes) \/ DictHas(SpanObject(k).val, K_edges)
  THEN "skip"
  ELSE IF DictHas(SpanObject(k).val, K_source) /\ DictHas(SpanObject(k).val, K_target)
  THEN "edge"
  ELSE IF DictHas(SpanObject(k).val, K_id) /\ DictHas(SpanObject(k).val, K_label)
  THEN "node"
  ELSE "skip"

IdOf(k) == DictGet(SpanObject(k).val, K_id, None)

\* The spans that are edges, and the spans that are the first node of their id.
EdgeSpans == {k \in 1..Len(Spans) : ClassOf(k) = "edge"}

NodeSpans ==
  {k \in 1..Len(Spans) :
     /\ ClassOf(k) = "node"
     /\ \A j \in 1..(k - 1) : ClassOf(j) = "node" => IdOf(j) # IdOf(k)}

\* The objects of the spans of S, in the order of the text.
ObjectsOf(S) ==
  [i \in 1..Cardinality(S) |->
     SpanObject(CHOOSE k \in S : Cardinality({j \in S : j <= k}) = i).val]

\* C20: when the block does not parse, the salvage ends with the edge objects
\* and the first node object of each id, each list in the order of the text,
\* objects with a nodes or an edges key left out; the node list never holds
\* an id twice; with neither a node nor an edge it is the could-not-parse
\* summary.
C20_SalvageClassification ==
  tpc = "done" /\ ~data.ok =>
    IF NodeSpans = {} /\ EdgeSpans = {}
    THEN result.kind = "failure"
    ELSE /\ result.kind = "salvaged"
         /\ result.nodes = <<"arr", ObjectsOf(NodeSpans)>>
         /\ result.edges = <<"arr", ObjectsOf(EdgeSpans)>>
         /\ \A i, j \in 1..Len(Items(result.nodes)) :
              DictGet(Items(result.nodes)[i], K_id, None)
                = DictGet(Items(result.nodes)[j], K_id, None) => i = j

\* The braces opened and not closed in text[i..k] (1-based, both ends in).
OpenIn(text, i, k) ==
  Cardinality({m \in i..k : text[m] = "{"}) - Cardinality({m \in i..k : text[m] = "}"})

\* The balanced spans of a text: <<i, j>> with an opening brace at i and its
\* matching closing brace at j.
BalancedSpans(text) ==
  {ij \in (1..Len(text)) \X (1..Len(text)) :
     /\ text[ij[1]] = "{" /\ text[ij[2]] = "}" /\ ij[1] < ij[2]
     /\ OpenIn(text, ij[1], ij[2]) = 0
     /\ \A k \in ij[1]..(ij[2] - 1) : OpenIn(text, ij[1], k) > 0}

\* C21: when the block does not parse, every balanced span of it is handed to
\* the parser, a span inside an unterminated or unparseable span included; so
\* a complete node or edge object anywhere in the block keeps the salvage from
\* ending with nothing.
C21_EveryBalancedSpanScanned ==
  tpc = "done" /\ ~data.ok =>
    \A ij \in BalancedSpans(json_block) :
      /\ \E k \in 1..Len(Spans) : Spans[k] = SubSeq(json_block, ij[1], ij[2])
      /\ json_loads(SubSeq(json_block, ij[1], ij[2])).ok
           /\ DictHas(json_loads(SubSeq(json_block, ij[1], ij[2])).val, K_id)
           /\ DictHas(json_loads(SubSeq(json_block, ij[1], ij[2])).val, K_label)
           /\ Hashable(DictGet(json_loads(SubSeq(json_block, ij[1], ij[2])).val,
                               K_id, None))
           => result.kind = "salvaged"

\* The block without its last k characters and the whitespace before them.
CutOff(k) == rstrip(SubSeq(json_block, 1, Len(json_block) - k))

\* The last closing bracket of a text: its place, 0 when there is none.
LastClose(t) ==
  IF \A i \in 1..Len(t) : t[i] \notin {"}", "]"} THEN 0
  ELSE CHOOSE i \in 1..Len(t) :
         t[i] \in {"}", "]"} /\ \A j \in (i + 1)..Len(t) : t[j] \notin {"}", "]"}

\* The candidate of the cut k: the prefix that ends at the last closing bracket.
CandidateAt(k) == SubSeq(CutOff(k), 1, LastClose(CutOff(k)))

\* The cuts of the repair at which no closing bracket is left.
Bracketless == {k \in 1..(TrimLimit - 1) : LastClose(CutOff(k)) = 0}

\* C24: the repair ends on every block.  After the parse of the block as it is
\* it hands at most TrimLimit - 1 = 199 candidates to the parser, the candidate
\* of the cut k being a prefix of the block that ends at a closing bracket, k
\* or more characters shorter; it returns the first candidate that parses;
\* it stops at the first cut that leaves no closing bracket; in every other
\* case it ends with the parse error, and the cascade goes on to the salvage.
C24_RepairBounded ==
  tpc \in {"parsed", "except", "done"} =>
    /\ data.tried <= TrimLimit - 1
    /\ data.ok /\ data.cut = 0 => json_loads(json_block).ok /\ data.tried = 0
    /\ data.ok /\ data.cut > 0 =>
         /\ ~json_loads(json_block).ok
         /\ data.cut < TrimLimit /\ data.tried = data.cut
         /\ LastClose(CutOff(data.cut)) > 0
         /\ Len(CandidateAt(data.cut)) <= Len(json_block) - data.cut
         /\ json_loads(CandidateAt(data.cut)).ok
         /\ data.val = json_loads(CandidateAt(data.cut)).val
         /\ \A k \in 1..(data.cut - 1) :
              k \notin Bracketless /\ ~json_loads(CandidateAt(k)).ok
    /\ ~data.ok =>
         /\ ~json_loads(json_block).ok
         /\ data.tried = (IF Bracketless = {} THEN TrimLimit ELSE MinOf(Bracketless)) - 1
         /\ \A k \in 1..data.tried : ~json_loads(CandidateAt(k)).ok
         /\ tpc \in {"except", "done"}
         /\ tpc = "done" => result = salvage_graph(json_block)
    /\ data.ok => tpc \in {"parsed", "done"}

\* All 199 candidates were tried and none parsed: the cascade went on to the
\* salvage and ended there.
C24_Witness ==
  /\ tpc = "done" /\ ~data.ok
  /\ data.tried = TrimLimit - 1
  /\ Len(json_block) > TrimLimit
  /\ result.kind = "failure"

====
